---- MODULE Spec2Model ----
(***************************************************************************)
(* Model of the analysis engine of code-map (parseProject and its helpers) *)
(* Strings of the program (paths, import specifiers, identifiers, node     *)
(* ids) are sequences of one-character strings, so that startsWith,        *)
(* includes, split and concatenation are computed, not assumed.            *)
(***************************************************************************)
EXTENDS Integers, Sequences, FiniteSets, TLC

\* ------------------------------------------------------------------ bounds
MaxFiles == 3
MaxDepth == 2
MaxPyLines == 4
MaxOut == 2

\* the number of files of a project of the second set
MaxMixed == 2

\* the number of files of a project shown in the map
MaxView == 2

\* the number of imports between the files of an ordered file graph
MaxEdges == 4

\* the value of an absent numeric field (cognitiveComplexity?: number, loc?)
Undef == -1

\* ------------------------------------------------------- string primitives
StartsWith(s, pre) == Len(pre) <= Len(s) /\ SubSeq(s, 1, Len(pre)) = pre

EndsWith(s, suf) == Len(suf) <= Len(s) /\ SubSeq(s, Len(s) - Len(suf) + 1, Len(s)) = suf

Includes(s, sub) == \E k \in 0..(Len(s) - Len(sub)) : SubSeq(s, k + 1, k + Len(sub)) = sub

\* 0-based index of the last occurrence of character ch, -1 when absent
LastIndexOf(s, ch) ==
  IF \E k \in 1..Len(s) : s[k] = ch
  THEN (CHOOSE k \in 1..Len(s) : s[k] = ch /\ \A m \in (k+1)..Len(s) : s[m] # ch) - 1
  ELSE -1

\* s.substring(0, n): a negative n is treated as 0
Substring0(s, n) ==
  IF n <= 0 THEN <<>> ELSE SubSeq(s, 1, IF n > Len(s) THEN Len(s) ELSE n)

RECURSIVE SplitFrom(_, _, _, _)
SplitFrom(s, ch, k, cur) ==
  IF k > Len(s) THEN <<cur>>
  ELSE IF s[k] = ch THEN <<cur>> \o SplitFrom(s, ch, k + 1, <<>>)
  ELSE SplitFrom(s, ch, k + 1, Append(cur, s[k]))

\* s.split(ch)
Split(s, ch) == SplitFrom(s, ch, 1, <<>>)

RECURSIVE Join(_, _)
Join(parts, ch) ==
  IF parts = <<>> THEN <<>>
  ELSE IF Len(parts) = 1 THEN parts[1]
  ELSE parts[1] \o <<ch>> \o Join(Tail(parts), ch)

\* arr.filter(pred) for a set-valued predicate
RECURSIVE FilterSeq(_, _)
FilterSeq(s, keep) ==
  IF s = <<>> THEN <<>>
  ELSE (IF s[1] \in keep THEN <<s[1]>> ELSE <<>>) \o FilterSeq(Tail(s), keep)

Range(s) == {s[k] : k \in 1..Len(s)}

\* [...new Set(arr)]: first occurrences, in order
RECURSIVE Dedup(_)
Dedup(s) ==
  IF s = <<>> THEN <<>>
  ELSE LET d == Dedup(SubSeq(s, 1, Len(s) - 1))
       IN IF s[Len(s)] \in Range(d) THEN d ELSE Append(d, s[Len(s)])

\* ------------------------------------------------ syntax trees (ESTree)
\* A node keeps its type, the one attribute the calculator reads (operator
\* of a LogicalExpression, callee name of a CallExpression, label of a
\* break/continue, "test" of a SwitchCase) and its children in the order
\* acorn-walk's base walker descends into them.
Mk(t, a, ks) == [type |-> t, op |-> a, kids |-> ks]

NoBody == Mk("none", <<>>, <<>>)

Leaf(t) == Mk(t, <<>>, <<>>)

Block(ks) == Mk("BlockStatement", <<>>, ks)

OpAnd == <<"&", "&">>

OpOr == <<"|", "|">>

LeaveTypes == {"IfStatement", "ForStatement", "WhileStatement", "DoWhileStatement",
               "ConditionalExpression", "SwitchStatement", "CatchClause",
               "FunctionExpression", "ArrowFunctionExpression"}

ScoredTypes == {"IfStatement", "ForStatement", "WhileStatement", "DoWhileStatement",
                "ConditionalExpression", "SwitchStatement"}

\* the callbacks handed to walk.simple; st = [complexity, nesting, chain]
visitors(node, st, functionName) ==
  CASE node.type \in {"FunctionExpression", "ArrowFunctionExpression"} ->
         [st EXCEPT !.nesting = @ + 1]
    [] node.type \in ScoredTypes ->
         [complexity |-> st.complexity + 1 + st.nesting,
          nesting |-> st.nesting + 1, chain |-> <<>>]
    [] node.type = "CatchClause" ->
         [complexity |-> st.complexity + 1,
          nesting |-> st.nesting + 1, chain |-> <<>>]
    [] node.type = "SwitchCase" ->
         [st EXCEPT !.complexity = IF node.op # <<>> THEN @ + 1 ELSE @,
                    !.chain = <<>>]
    [] node.type \in {"BreakStatement", "ContinueStatement"} ->
         [st EXCEPT !.complexity = IF node.op # <<>> THEN @ + 1 ELSE @]
    [] node.type = "CallExpression" ->
         [st EXCEPT !.complexity =
                      IF functionName # <<>> /\ node.op = functionName THEN @ + 1 ELSE @,
                    !.chain = <<>>]
    [] node.type = "LogicalExpression" ->
         IF st.chain # node.op /\ node.op \in {OpAnd, OpOr}
         THEN [st EXCEPT !.complexity = @ + 1, !.chain = node.op]
         ELSE st
    [] node.type \in {"MemberExpression", "UnaryExpression", "UpdateExpression"} ->
         [st EXCEPT !.chain = <<>>]
    [] OTHER -> st

\* the wrapper installed by leave(type) around the base walker of a type
leave(node, st) ==
  IF node.type \in LeaveTypes THEN [st EXCEPT !.nesting = @ - 1] ELSE st

RECURSIVE walkSimple(_, _, _)
RECURSIVE walkKids(_, _, _, _)
\* acorn-walk simple(): the continuation c runs the base walker of the node
\* (its children, then the leave wrapper) and only then the node's callback
walkSimple(node, st, functionName) ==
  visitors(node, leave(node, walkKids(node.kids, 1, st, functionName)), functionName)

walkKids(ks, k, st, functionName) ==
  IF k > Len(ks) THEN st
  ELSE LET next == walkSimple(ks[k], st, functionName)
       IN IF next = next   \* the child is walked before its next sibling
          THEN walkKids(ks, k + 1, next, functionName)
          ELSE next

\* functionNode = [id |-> name or <<>>, body |-> tree or NoBody]
calculateCognitiveComplexity(functionNode) ==
  IF functionNode.body = NoBody THEN 0
  ELSE walkSimple(functionNode.body,
                  [complexity |-> 0, nesting |-> 0, chain |-> <<>>],
                  functionNode.id).complexity

\* ------------------------------------------------------------ input files
\* A statement of Program.body as acorn produces it.  decl holds the wrapped
\* declaration of an export (at most one), inner the declarations nested in
\* a function body, idents the Identifier expressions inside the statement.
Stmt(t) ==
  [t |-> t, id |-> <<>>, body |-> NoBody, loc |-> Undef, decl |-> <<>>,
   inner |-> <<>>, declarations |-> <<>>, methods |-> <<>>,
   specifiers |-> <<>>, locals |-> <<>>, source |-> <<>>, idents |-> <<>>]

FunctionDeclaration(name, body, loc) ==
  [Stmt("FunctionDeclaration") EXCEPT !.id = name, !.body = body, !.loc = loc]

\* a declarator: init is the type of the initializer, body its function body
Declarator(name, init, body, loc) == [id |-> name, init |-> init, body |-> body, loc |-> loc]

VariableDeclaration(ds, loc) ==
  [Stmt("VariableDeclaration") EXCEPT !.declarations = ds, !.loc = loc]

\* methods: MethodDefinition members with an Identifier key and a function body
ClassDeclaration(name, ms, loc) ==
  [Stmt("ClassDeclaration") EXCEPT !.id = name, !.methods = ms, !.loc = loc]

\* locals: the local names of the export's specifiers
ExportNamedDeclaration(d, locals, loc) ==
  [Stmt("ExportNamedDeclaration") EXCEPT !.decl = d, !.locals = locals, !.loc = loc]

ExportDefaultDeclaration(d, loc) ==
  [Stmt("ExportDefaultDeclaration") EXCEPT !.decl = <<d>>, !.loc = loc]

ImportDeclaration(src, specs) ==
  [Stmt("ImportDeclaration") EXCEPT !.source = src, !.specifiers = specs]

ImportSpecifier(imported, local) == [type |-> "ImportSpecifier", imported |-> imported, local |-> local]

ImportDefaultSpecifier(local) == [type |-> "ImportDefaultSpecifier", imported |-> <<>>, local |-> local]

ImportNamespaceSpecifier(local) == [type |-> "ImportNamespaceSpecifier", imported |-> <<>>, local |-> local]

ExpressionStatement(ids) == [Stmt("ExpressionStatement") EXCEPT !.idents = ids]

\* an expression in the position of a default export
Expr(t, name, body, loc) == [Stmt(t) EXCEPT !.id = name, !.body = body, !.loc = loc]

\* A line of a pattern-analysed file: its indentation, its leading keyword,
\* the name captured by a pattern, the number of " and "/" or " operators
\* and the words it contains.
Line(indent, head, arg, ops, words) ==
  [indent |-> indent, head |-> head, arg |-> arg, ops |-> ops, words |-> words,
   toks |-> <<>>, end |-> 0]

\* The text of a line of a brace language is kept as its tokens: a word
\* (identifier, keyword or number) with its characters, or a punctuation
\* mark.  White space is not kept.
W(s) == [k |-> "w", s |-> s]

K(k) == [k |-> k, s |-> <<>>]

\* ------------------------------------------------- node objects and the map
\* nodes is the heap of TreeNode objects (index = object identity, 1 = root);
\* children hold heap indices; allNodesByUniqueId is a Map kept as the
\* sequence of its entries in insertion order.
TreeNode(name, type, path, uniqueId) ==
  [name |-> name, type |-> type, path |-> path, uniqueId |-> uniqueId,
   children |-> <<>>, dependencies |-> <<>>, dependents |-> <<>>,
   imports |-> <<>>, isExported |-> FALSE, loc |-> Undef,
   cognitiveComplexity |-> Undef, isUnused |-> FALSE, isCyclic |-> FALSE,
   instability |-> <<Undef, 1>>]

ProjectRootId == <<"p","r","o","j","e","c","t","_","r","o","o","t">>

RootNode == TreeNode(<<"r","o","o","t">>, "directory", <<>>, ProjectRootId)

FilePrefix == <<"f","i","l","e",":">>

DirPrefix == <<"d","i","r",":">>

NameDefault == <<"d","e","f","a","u","l","t">>

mapHas(m, key) == \E k \in 1..Len(m) : m[k].key = key

\* Map.get: the heap index stored under key, 0 for undefined
mapGet(m, key) ==
  IF mapHas(m, key) THEN m[CHOOSE k \in 1..Len(m) : m[k].key = key].val ELSE 0

\* Map.set: an existing key keeps its position, a new key is appended
mapSet(m, key, val) ==
  IF mapHas(m, key)
  THEN [k \in 1..Len(m) |-> IF m[k].key = key THEN [key |-> key, val |-> val] ELSE m[k]]
  ELSE Append(m, [key |-> key, val |-> val])

\* allNodesByUniqueId.values(), as heap indices in insertion order
mapValues(m) == [k \in 1..Len(m) |-> m[k].val]

EmptyHeap == [nodes |-> <<RootNode>>, map |-> <<>>, thrown |-> FALSE]

\* create a node object, push it to its parent's children and register it
addNode(h, parent, node) ==
  LET idx == Len(h.nodes) + 1
  IN [h EXCEPT !.nodes = Append([@ EXCEPT ![parent].children = Append(@, idx)], node),
               !.map = mapSet(@, node.uniqueId, idx)]

\* ------------------------------------------------ tree-based extraction
\* a variant that never looks for an existing node
createSymbolNodeAlways(h, file, fileNode, name, type, loc, isExported, displayName, cognitiveComplexity) ==
  addNode(h, fileNode,
          [TreeNode(displayName, type, file.path, file.path \o <<":">> \o name) EXCEPT
             !.isExported = isExported, !.loc = loc,
             !.cognitiveComplexity = cognitiveComplexity])

\* a variant in which the later discovery also sets the kind and the name
createSymbolNodeRetype(h, file, fileNode, name, type, loc, isExported, displayName, cognitiveComplexity) ==
  LET uniqueId == file.path \o <<":">> \o name
      existingNode == mapGet(h.map, uniqueId)
  IN IF existingNode # 0
     THEN [h EXCEPT !.nodes[existingNode] =
             [@ EXCEPT !.type = type, !.name = displayName,
                       !.isExported = IF isExported THEN TRUE ELSE @,
                       !.loc = IF loc # Undef /\ @ = Undef THEN loc ELSE @,
                       !.cognitiveComplexity =
                          IF cognitiveComplexity # Undef THEN cognitiveComplexity ELSE @]]
     ELSE addNode(h, fileNode,
                  [TreeNode(displayName, type, file.path, uniqueId) EXCEPT
                     !.isExported = isExported, !.loc = loc,
                     !.cognitiveComplexity = cognitiveComplexity])

createSymbolNode(h, file, fileNode, name, type, loc, isExported, displayName, cognitiveComplexity) ==
  LET uniqueId == file.path \o <<":">> \o name
      existingNode == mapGet(h.map, uniqueId)
  IN IF existingNode # 0
     THEN [h EXCEPT !.nodes[existingNode] =
             [@ EXCEPT !.isExported = IF isExported THEN TRUE ELSE @,
                       !.loc = IF loc # Undef /\ @ = Undef THEN loc ELSE @,
                       !.cognitiveComplexity =
                          IF cognitiveComplexity # Undef THEN cognitiveComplexity ELSE @]]
     ELSE addNode(h, fileNode,
                  [TreeNode(displayName, type, file.path, uniqueId) EXCEPT
                     !.isExported = isExported, !.loc = loc,
                     !.cognitiveComplexity = cognitiveComplexity])

IsFunctionInit(init) == init \in {"ArrowFunctionExpression", "FunctionExpression"}

getDeclarationName(declaration) ==
  IF declaration.id # <<>> THEN declaration.id
  ELSE IF declaration.t = "VariableDeclaration" /\ declaration.declarations # <<>>
       THEN declaration.declarations[1].id
       ELSE <<>>

\* file.path.split('/').pop()?.split('.')[0]
BaseName(path) == Split(Split(path, "/")[Len(Split(path, "/"))], ".")[1]

RECURSIVE classMethods(_, _, _, _, _)
\* the loop over node.body.body of a ClassDeclaration: reading node.id.name
\* of an anonymous class throws
classMethods(h, file, fileNode, node, k) ==
  IF k > Len(node.methods) THEN h
  ELSE IF node.id = <<>> THEN [h EXCEPT !.thrown = TRUE]
  ELSE LET displayName == node.id \o <<".">> \o node.methods[k].key
           complexity == calculateCognitiveComplexity([id |-> <<>>, body |-> node.methods[k].body])
       IN classMethods(createSymbolNode(h, file, fileNode, displayName, "function",
                                        node.methods[k].loc, FALSE, displayName, complexity),
                       file, fileNode, node, k + 1)

RECURSIVE variableDeclarators(_, _, _, _, _)
variableDeclarators(h, file, fileNode, node, k) ==
  IF k > Len(node.declarations) THEN h
  ELSE LET declaration == node.declarations[k]
           isFunction == IsFunctionInit(declaration.init)
           complexity == IF isFunction
                         THEN calculateCognitiveComplexity([id |-> <<>>, body |-> declaration.body])
                         ELSE Undef
       IN variableDeclarators(
            createSymbolNode(h, file, fileNode, declaration.id,
                             IF isFunction THEN "arrow_function" ELSE "variable",
                             declaration.loc, FALSE, declaration.id, complexity),
            file, fileNode, node, k + 1)

RECURSIVE exportSpecifiers(_, _, _, _)
exportSpecifiers(h, file, node, k) ==
  IF k > Len(node.locals) THEN h
  ELSE LET targetNode == mapGet(h.map, file.path \o <<":">> \o node.locals[k])
       IN exportSpecifiers(IF targetNode # 0
                           THEN [h EXCEPT !.nodes[targetNode].isExported = TRUE]
                           ELSE h,
                           file, node, k + 1)

ExportNamedVisitor(h, file, fileNode, node) ==
  LET withDecl ==
        IF node.decl = <<>> THEN h
        ELSE LET declaration == node.decl[1]
                 name == getDeclarationName(declaration)
                 decl1 == declaration.declarations[1]
                 isArrow == declaration.t = "VariableDeclaration"
                            /\ declaration.declarations # <<>> /\ IsFunctionInit(decl1.init)
                 type == CASE declaration.t = "ClassDeclaration" -> "class"
                           [] declaration.t = "FunctionDeclaration" -> "function"
                           [] isArrow -> "arrow_function"
                           [] OTHER -> "variable"
                 complexity ==
                   CASE declaration.t = "FunctionDeclaration" ->
                          calculateCognitiveComplexity([id |-> declaration.id, body |-> declaration.body])
                     [] declaration.t # "ClassDeclaration" /\ isArrow ->
                          calculateCognitiveComplexity([id |-> <<>>, body |-> decl1.body])
                     [] OTHER -> Undef
             IN IF name = <<>> THEN h
                ELSE createSymbolNode(h, file, fileNode, name, type, declaration.loc,
                                      TRUE, name, complexity)
  IN exportSpecifiers(withDecl, file, node, 1)

ExportDefaultVisitor(h, file, fileNode, node) ==
  LET declarationNode == node.decl[1]
      symbolType == CASE IsFunctionInit(declarationNode.t) -> "arrow_function"
                      [] declarationNode.t = "FunctionDeclaration" -> "function"
                      [] declarationNode.t = "ClassDeclaration" -> "class"
                      [] OTHER -> "variable"
      complexity == IF declarationNode.t = "FunctionDeclaration" \/ IsFunctionInit(declarationNode.t)
                    THEN calculateCognitiveComplexity([id |-> declarationNode.id,
                                                       body |-> declarationNode.body])
                    ELSE Undef
      displayName == IF declarationNode.id # <<>> THEN declarationNode.id
                     ELSE IF BaseName(file.path) # <<>> THEN BaseName(file.path)
                     ELSE NameDefault
  IN createSymbolNode(h, file, fileNode, NameDefault, symbolType, declarationNode.loc,
                      TRUE, displayName, complexity)

\* the callback of walk.simple(ast, {...}) for one node
extractVisitor(h, file, fileNode, node) ==
  CASE node.t = "FunctionDeclaration" ->
         IF node.id # <<>>
         THEN createSymbolNode(h, file, fileNode, node.id, "function", node.loc, FALSE, node.id,
                               calculateCognitiveComplexity([id |-> node.id, body |-> node.body]))
         ELSE h
    [] node.t = "ClassDeclaration" ->
         classMethods(IF node.id # <<>>
                      THEN createSymbolNode(h, file, fileNode, node.id, "class", node.loc,
                                            FALSE, node.id, Undef)
                      ELSE h,
                      file, fileNode, node, 1)
    [] node.t = "VariableDeclaration" -> variableDeclarators(h, file, fileNode, node, 1)
    [] node.t = "ExportNamedDeclaration" -> ExportNamedVisitor(h, file, fileNode, node)
    [] node.t = "ExportDefaultDeclaration" -> ExportDefaultVisitor(h, file, fileNode, node)
    [] OTHER -> h

RECURSIVE extractWalk(_, _, _, _)
RECURSIVE extractWalkSeq(_, _, _, _, _)
\* walk.simple: nested declarations first, then the node itself; an
\* exception leaves the walk (the catch of parseFileWithAcorn)
extractWalk(h, file, fileNode, node) ==
  LET below == extractWalkSeq(h, file, fileNode, node.inner \o node.decl, 1)
  IN IF below.thrown THEN below ELSE extractVisitor(below, file, fileNode, node)

extractWalkSeq(h, file, fileNode, ns, k) ==
  IF k > Len(ns) \/ h.thrown THEN h
  ELSE extractWalkSeq(extractWalk(h, file, fileNode, ns[k]), file, fileNode, ns, k + 1)

\* an extractor that keeps what it read before the syntax error
parseFileWithAcornLoose(h, file, fileNode) ==
  [extractWalkSeq(h, file, fileNode, file.content.body, 1) EXCEPT !.thrown = FALSE]

\* acorn.parse throws on content it cannot parse: nothing is extracted
parseFileWithAcorn(h, file, fileNode) ==
  IF ~file.content.parses THEN h
  ELSE [extractWalkSeq(h, file, fileNode, file.content.body, 1) EXCEPT !.thrown = FALSE]

\* ------------------------------------------------------ language registry
Ext(s) == <<".">> \o s

jsExtensions == <<Ext(<<"j","s">>), Ext(<<"j","s","x">>), Ext(<<"t","s">>),
                  Ext(<<"t","s","x">>), Ext(<<"m","j","s">>), Ext(<<"c","j","s">>)>>

\* Each pattern of a rule set is kept as the set of leading keywords of the
\* lines it matches; the captured name is the line's arg.
\* the least index of the set, 0 for the empty set (indexOf = -1)
FirstOf(S) == IF S = {} THEN 0 ELSE CHOOSE x \in S : \A y \in S : x <= y

pyConfig ==
  [name |-> "Python", alias |-> <<>>,
   regex |-> << [tokenType |-> "imports", patterns |-> <<{"from"}, {"import"}>>],
                [tokenType |-> "class", patterns |-> <<{"class"}>>],
                [tokenType |-> "function", patterns |-> <<{"def"}>>] >>]

cppConfig ==
  [name |-> "C++", alias |-> <<>>,
   regex |-> << [tokenType |-> "imports", patterns |-> <<{"#include"}>>],
                [tokenType |-> "class", patterns |-> <<{"class", "struct"}>>],
                [tokenType |-> "struct", patterns |-> <<{"struct"}>>],
                [tokenType |-> "function", patterns |-> <<{"cppfn"}>>] >>]

objcConfig ==
  [name |-> "Objective-C", alias |-> <<>>,
   regex |-> << [tokenType |-> "imports", patterns |-> <<{"#import"}>>],
                [tokenType |-> "class", patterns |-> <<{"@interface"}>>],
                [tokenType |-> "protocol", patterns |-> <<{"@protocol"}>>],
                [tokenType |-> "function", patterns |-> <<{"objcfn"}>>] >>]

AliasOf(name, key) == [name |-> name, alias |-> key, regex |-> <<>>]

\* the rule sets of py, c, h, cpp, m, mm and objc (java, swift, kt, go and
\* rs are registered extensions whose rule sets are not modelled)
languageConfigs ==
  [k \in {<<"p","y">>, <<"c">>, <<"h">>, <<"c","p","p">>, <<"m">>, <<"m","m">>,
          <<"o","b","j","c">>} |->
     CASE k = <<"p","y">> -> pyConfig
       [] k = <<"c">> -> AliasOf("C", <<"c","p","p">>)
       [] k = <<"h">> -> AliasOf("C/C++ Header", <<"c","p","p">>)
       [] k = <<"c","p","p">> -> cppConfig
       [] k = <<"m">> -> AliasOf("Objective-C", <<"o","b","j","c">>)
       [] k = <<"m","m">> -> AliasOf("Objective-C++", <<"o","b","j","c">>)
       [] OTHER -> objcConfig]

braceBasedLanguages ==
  {"Java", "C++", "C/C++ Header", "Objective-C", "Objective-C++", "Swift", "Kotlin",
   "Go", "Rust"}

\* ------------------------------------ the patterns of the brace languages
TypeToken(t) == t.k \in {"w", "*", "&", "<", ">", ":"}

\* the cpp function pattern applied at the start of a line:
\* type+ name ( [^)]* ) (const|noexcept)? {  -- the match ends with the brace
cppFunction(toks) ==
  LET ok(j) ==
        /\ j + 1 <= Len(toks)
        /\ \A x \in 1..(j - 1) : TypeToken(toks[x])
        /\ toks[j].k = "w" /\ toks[j + 1] = K("(")
        /\ LET c == FirstOf({x \in (j + 2)..Len(toks) : toks[x] = K(")")})
           IN /\ c # 0 /\ c + 1 <= Len(toks)
              /\ \/ toks[c + 1] = K("{")
                 \/ /\ c + 2 <= Len(toks) /\ toks[c + 2] = K("{")
                    /\ toks[c + 1] \in {W(<<"c","o","n","s","t">>),
                                        W(<<"n","o","e","x","c","e","p","t">>)}
      j == FirstOf({x \in 2..Len(toks) : ok(x)})
      c == FirstOf({x \in (j + 2)..Len(toks) : toks[x] = K(")")})
  IN IF toks = <<>> \/ toks[1].k \in {"#include", "*"} \/ toks[1] = W(<<"u","s","i","n","g">>)
        \/ j = 0
     THEN [name |-> <<>>, end |-> 0]
     ELSE [name |-> toks[j].s, end |-> IF toks[c + 1] = K("{") THEN c + 1 ELSE c + 2]

\* the objc method pattern: [-+] ( type ) name  -- the match ends with the name
objcFunction(toks) ==
  LET c == FirstOf({x \in 3..Len(toks) : toks[x] = K(")")})
  IN IF Len(toks) >= 4 /\ toks[1].k \in {"-", "+"} /\ toks[2] = K("(")
        /\ c > 3 /\ c + 1 <= Len(toks) /\ toks[c + 1].k = "w"
     THEN [name |-> toks[c + 1].s, end |-> c + 1]
     ELSE [name |-> <<>>, end |-> 0]

\* a line of a brace language: head names the pattern that matches at its
\* start (a mark of kinds or a word of words, followed by a name), arg is
\* the captured name and end the last token of the match
BraceLine(toks, fn, fnHead, kinds, words) ==
  LET named == /\ Len(toks) >= 2 /\ toks[2].k = "w"
               /\ IF toks[1].k = "w" THEN toks[1].s \in words ELSE toks[1].k \in kinds
  IN [Line(0, "stmt", <<>>, 0, {}) EXCEPT
        !.toks = toks,
        !.head = IF fn.name # <<>> THEN fnHead
                 ELSE IF ~named THEN "stmt"
                 ELSE IF toks[1].k # "w" THEN toks[1].k
                 ELSE IF toks[1].s = <<"s","t","r","u","c","t">> THEN "struct" ELSE "class",
        !.arg = IF fn.name # <<>> THEN fn.name ELSE IF named THEN toks[2].s ELSE <<>>,
        !.end = IF fn.name # <<>> THEN fn.end ELSE 2]

CppLine(toks) ==
  BraceLine(toks, cppFunction(toks), "cppfn", {"#include"},
            {<<"s","t","r","u","c","t">>, <<"c","l","a","s","s">>})

ObjcLine(toks) ==
  BraceLine(toks, objcFunction(toks), "objcfn", {"#import", "@interface", "@protocol"}, {})

\* Object.keys(languageConfigs), in declaration order
languageKeys ==
  << <<"p","y">>, <<"j","a","v","a">>, <<"c">>, <<"h">>, <<"c","p","p">>, <<"m">>,
     <<"m","m">>, <<"o","b","j","c">>, <<"s","w","i","f","t">>, <<"k","t">>,
     <<"g","o">>, <<"r","s">> >>

allSupportedExtensions == jsExtensions \o [k \in 1..Len(languageKeys) |-> Ext(languageKeys[k])]

IsSupported(path) ==
  path # <<>> /\ \E k \in 1..Len(allSupportedExtensions) : EndsWith(path, allSupportedExtensions[k])

\* `.${file.path.split('.').pop() || ''}`
ExtensionOf(path) == Ext(Split(path, ".")[Len(Split(path, "."))])

IsJs(path) == ExtensionOf(path) \in Range(jsExtensions)

\* ------------------------------------------- pattern-based complexity (py)
IsComment(line) == line.head = "#"

IsBlank(line) == line.head = ""

nestingKeywords == {"if", "for", "while", "except", "with"}

simpleKeywords == {"elif", "else"}

\* the first line that is the header of functionName, 0 when there is none
PyStartLine(lines, functionName) ==
  LET hits == {k \in 1..Len(lines) : ~IsComment(lines[k]) /\ lines[k].head = "def"
                                     /\ lines[k].arg = functionName}
  IN IF hits = {} THEN 0 ELSE CHOOSE k \in hits : \A m \in hits : k <= m

\* the lines after the header up to the first non-blank line that is not
\* indented deeper than the header
PyFunctionBody(lines, startLine) ==
  LET functionIndent == lines[startLine].indent
      stops == {k \in (startLine + 1)..Len(lines) :
                  ~IsBlank(lines[k]) /\ lines[k].indent <= functionIndent}
      last == IF stops = {} THEN Len(lines)
              ELSE (CHOOSE k \in stops : \A m \in stops : k <= m) - 1
  IN SubSeq(lines, startLine + 1, last)

RECURSIVE PopDeeper(_, _)
RECURSIVE PopLevels(_, _)
\* a variant that keeps a level open under a line of the same indentation
PopDeeper(nestingStack, indent) ==
  IF nestingStack # <<>> /\ indent < nestingStack[Len(nestingStack)]
  THEN PopDeeper(SubSeq(nestingStack, 1, Len(nestingStack) - 1), indent)
  ELSE nestingStack

\* while (nestingStack.length > 0 && indent <= top) nestingStack.pop()
PopLevels(nestingStack, indent) ==
  IF nestingStack # <<>> /\ indent <= nestingStack[Len(nestingStack)]
  THEN PopLevels(SubSeq(nestingStack, 1, Len(nestingStack) - 1), indent)
  ELSE nestingStack

\* one iteration of the scoring loop; st = [complexity, nestingStack]
PyScoreLine(st, line, functionName) ==
  IF IsBlank(line) \/ IsComment(line) THEN st
  ELSE LET stack == PopLevels(st.nestingStack, line.indent)
           nestingDepth == Len(stack)
           keyword == IF line.head \in nestingKeywords THEN 1 + nestingDepth
                      ELSE IF line.head \in simpleKeywords THEN 1 ELSE 0
           recursion == IF functionName \in line.words THEN 1 ELSE 0
       IN [complexity |-> st.complexity + keyword + line.ops + recursion,
           nestingStack |-> IF line.head \in nestingKeywords
                            THEN Append(stack, line.indent) ELSE stack]

RECURSIVE PyScore(_, _, _, _)
PyScore(st, body, k, functionName) ==
  IF k > Len(body) THEN st
  ELSE PyScore(PyScoreLine(st, body[k], functionName), body, k + 1, functionName)

calculatePythonCognitiveComplexity(content, functionName) ==
  LET startLine == PyStartLine(content, functionName)
  IN IF startLine = 0 THEN 0
     ELSE PyScore([complexity |-> 0, nestingStack |-> <<>>],
                  PyFunctionBody(content, startLine), 1, functionName).complexity

\* ---------------------------------------- pattern-based complexity (braces)
RECURSIVE Flatten(_, _)
\* the tokens of lines k.. joined by line breaks: the content string
Flatten(lines, k) ==
  IF k > Len(lines) THEN <<>>
  ELSE IF k = Len(lines) THEN lines[k].toks
  ELSE lines[k].toks \o <<K("nl")>> \o Flatten(lines, k + 1)

\* the number of tokens of the content before line k
LineOffset(lines, k) == Len(Flatten(SubSeq(lines, 1, k - 1), 1)) + (IF k > 1 THEN 1 ELSE 0)


RECURSIVE closingBrace(_, _, _)
\* the loop of extractBraceBody: the index at which braceCount reaches 0
closingBrace(content, at, braceCount) ==
  IF at > Len(content) THEN 0
  ELSE LET c == braceCount + (IF content[at] = K("{") THEN 1
                              ELSE IF content[at] = K("}") THEN -1 ELSE 0)
       IN IF c = 0 THEN at ELSE closingBrace(content, at + 1, c)

\* startIndex counts the tokens before the position; found = FALSE is null
extractBraceBody(content, startIndex) ==
  LET firstBraceIndex == FirstOf({b \in (startIndex + 1)..Len(content) : content[b] = K("{")})
      last == closingBrace(content, firstBraceIndex + 1, 1)
  IN IF firstBraceIndex = 0 \/ last = 0 THEN [found |-> FALSE, body |-> <<>>]
     ELSE [found |-> TRUE, body |-> SubSeq(content, firstBraceIndex + 1, last - 1)]

CountTok(ts, t) == Cardinality({x \in 1..Len(ts) : ts[x] = t})

HasWord(ts, names) == \E x \in 1..Len(ts) : ts[x].k = "w" /\ ts[x].s \in names

braceNestingKeywords ==
  {<<"i","f">>, <<"f","o","r">>, <<"w","h","i","l","e">>, <<"s","w","i","t","c","h">>,
   <<"c","a","t","c","h">>}

braceSimpleKeywords == {<<"e","l","s","e">>, <<"c","a","s","e">>, <<"g","o","t","o">>}

\* one iteration of the loop over the lines of the body; st = [complexity,
\* nesting]
BraceScoreLine(st, line, functionName) ==
  LET nesting == IF CountTok(line, K("}")) > 0
                 THEN (IF st.nesting - CountTok(line, K("}")) > 0
                       THEN st.nesting - CountTok(line, K("}")) ELSE 0)
                 ELSE st.nesting
      cut == FirstOf({x \in 1..Len(line) : line[x].k \in {"//", "/*"}})
      trimmedLine == IF cut = 0 THEN line ELSE SubSeq(line, 1, cut - 1)
      recursion == \E x \in 1..(Len(trimmedLine) - 1) :
                      trimmedLine[x] = W(functionName) /\ trimmedLine[x + 1] = K("(")
  IN IF trimmedLine = <<>> THEN [st EXCEPT !.nesting = nesting]
     ELSE [complexity |-> st.complexity
                          + (IF HasWord(trimmedLine, braceNestingKeywords) THEN 1 + nesting ELSE 0)
                          + (IF HasWord(trimmedLine, braceSimpleKeywords) THEN 1 ELSE 0)
                          + CountTok(trimmedLine, K("?"))
                          + CountTok(trimmedLine, K("&&")) + CountTok(trimmedLine, K("||"))
                          + (IF recursion THEN 1 ELSE 0),
           nesting |-> nesting + CountTok(line, K("{"))]

RECURSIVE BraceScore(_, _, _, _)
\* the loop over functionBody.split('\n'): at is the first token of the
\* current line
BraceScore(st, functionBody, at, functionName) ==
  LET nl == FirstOf({x \in at..Len(functionBody) : functionBody[x] = K("nl")})
      stop == IF nl = 0 THEN Len(functionBody) + 1 ELSE nl
      next == BraceScoreLine(st, SubSeq(functionBody, at, stop - 1), functionName)
  IN IF nl = 0 THEN next ELSE BraceScore(next, functionBody, nl + 1, functionName)

calculateBraceBasedCognitiveComplexity(functionBody, functionName) ==
  IF functionBody = <<>> THEN 0
  ELSE BraceScore([complexity |-> 0, nesting |-> 0], functionBody, 1, functionName).complexity

\* ---------------------------------------------- pattern-based extraction
\* one match of a pattern of tokenType on line k
regexMatch(h, fileNode, path, content, config, tokenType, k) ==
  LET name == content[k].arg
      uniqueId == path \o <<":">> \o name
      functionBody == extractBraceBody(Flatten(content, 1),
                                       LineOffset(content, k) + content[k].end)
      complexity == IF tokenType = "function" /\ config.name = "Python"
                    THEN calculatePythonCognitiveComplexity(content, name)
                    ELSE IF tokenType = "function" /\ config.name \in braceBasedLanguages
                            /\ functionBody.found /\ functionBody.body # <<>>
                    THEN calculateBraceBasedCognitiveComplexity(functionBody.body, name)
                    ELSE Undef
  IN IF name = <<>> THEN h
     ELSE IF tokenType = "imports"
     THEN [h EXCEPT !.nodes[fileNode].imports = Append(@, name)]
     ELSE IF mapHas(h.map, uniqueId) THEN h
     ELSE addNode(h, fileNode,
                  [TreeNode(name, tokenType, path, uniqueId) EXCEPT
                     !.cognitiveComplexity = complexity])

RECURSIVE regexExec(_, _, _, _, _, _, _, _)
\* while ((match = pattern.exec(content)) !== null): the matches of one
\* pattern, in text order
regexExec(h, fileNode, path, content, config, tokenType, pattern, k) ==
  IF k > Len(content) THEN h
  ELSE regexExec(IF content[k].head \in pattern
                 THEN regexMatch(h, fileNode, path, content, config, tokenType, k)
                 ELSE h,
                 fileNode, path, content, config, tokenType, pattern, k + 1)

RECURSIVE regexPatterns(_, _, _, _, _, _, _)
\* the loops over config.regex and over the patterns of a token type; n
\* numbers the (token type, pattern) pairs in order
regexPatterns(h, fileNode, path, content, config, t, p) ==
  IF t > Len(config.regex) THEN h
  ELSE IF p > Len(config.regex[t].patterns)
  THEN regexPatterns(h, fileNode, path, content, config, t + 1, 1)
  ELSE regexPatterns(regexExec(h, fileNode, path, content, config,
                               config.regex[t].tokenType, config.regex[t].patterns[p], 1),
                     fileNode, path, content, config, t, p + 1)

parseFileWithRegex(h, content, config, fileNode, path) ==
  regexPatterns([h EXCEPT !.nodes[fileNode].imports = <<>>], fileNode, path, content, config, 1, 1)

\* ------------------------------------------------------ pass 1 of parseProject
\* currentNode.children?.find(child => child.name === part), 0 when absent
FindChild(h, currentNode, part) ==
  LET cs == h.nodes[currentNode].children
      hits == {k \in 1..Len(cs) : h.nodes[cs[k]].name = part}
  IN IF hits = {} THEN 0 ELSE cs[CHOOSE k \in hits : \A m \in hits : k <= m]

RECURSIVE walkPath(_, _, _, _)
\* the loop over pathParts: returns the heap and the node reached
walkPath(h, pathParts, k, currentNode) ==
  IF k > Len(pathParts) THEN [h |-> h, node |-> currentNode]
  ELSE LET part == pathParts[k]
           isFile == k = Len(pathParts)
           currentPath == Join(SubSeq(pathParts, 1, k), "/")
           childNode == FindChild(h, currentNode, part)
       IN IF childNode # 0 THEN walkPath(h, pathParts, k + 1, childNode)
          ELSE walkPath(addNode(h, currentNode,
                                TreeNode(part, IF isFile THEN "file" ELSE "directory",
                                         currentPath,
                                         (IF isFile THEN FilePrefix ELSE DirPrefix) \o currentPath)),
                        pathParts, k + 1, Len(h.nodes) + 1)

NonEmptyParts(path) ==
  LET parts == Split(path, "/")
  IN FilterSeq(parts, Range(parts) \ {<<>>})

\* the body of the first loop of parseProject for one file
discoverFile(h, file) ==
  LET w == walkPath(h, NonEmptyParts(file.path), 1, 1)
      fileNode == w.node
      key == SubSeq(ExtensionOf(file.path), 2, Len(ExtensionOf(file.path)))
      direct == IF key \in DOMAIN languageConfigs THEN key ELSE <<>>
      config == IF direct # <<>> /\ languageConfigs[direct].alias # <<>>
                THEN languageConfigs[direct].alias ELSE direct
  IN IF w.h.nodes[fileNode].type # "file" THEN w.h
     ELSE IF IsJs(file.path) THEN parseFileWithAcorn(w.h, file, fileNode)
     ELSE IF config # <<>> /\ config \in DOMAIN languageConfigs
     THEN parseFileWithRegex(w.h, file.content.lines, languageConfigs[config], fileNode, file.path)
     ELSE w.h

\* ------------------------------------------------------ pass 2: linking
\* Array.prototype.find over filePaths with a set-valued predicate; <<>> for
\* undefined
FindPath(filePaths, ok) ==
  LET hits == {k \in 1..Len(filePaths) : filePaths[k] \in ok}
  IN IF hits = {} THEN <<>> ELSE filePaths[CHOOSE k \in hits : \A m \in hits : k <= m]

RECURSIVE RemoveDotSegments(_, _, _)
\* the path of new URL(ref, base): "." is dropped, ".." removes the last
\* segment, and a final "." or ".." leaves a trailing slash
RemoveDotSegments(segs, k, out) ==
  IF k > Len(segs) THEN out
  ELSE LET seg == segs[k]
           isLast == k = Len(segs)
       IN IF seg = <<".">>
          THEN RemoveDotSegments(segs, k + 1, IF isLast THEN Append(out, <<>>) ELSE out)
          ELSE IF seg = <<".", ".">>
          THEN RemoveDotSegments(segs, k + 1,
                 LET up == IF out = <<>> THEN out ELSE SubSeq(out, 1, Len(out) - 1)
                 IN IF isLast THEN Append(up, <<>>) ELSE up)
          ELSE RemoveDotSegments(segs, k + 1, Append(out, seg))

\* new URL(importStr, `file:///${currentPath}`).pathname.substring(1)
UrlResolve(importStr, currentPath) ==
  LET base == Split(currentPath, "/")
      dir == SubSeq(base, 1, Len(base) - 1)
  IN Join(RemoveDotSegments(dir \o Split(importStr, "/"), 1, <<>>), "/")

resolveImportPath(importStr, currentPath, filePaths) ==
  IF ~StartsWith(importStr, <<".">>)
  THEN LET baseName == Split(importStr, "/")[1]
       IN FindPath(filePaths, {p \in Range(filePaths) : Includes(p, baseName)})
  ELSE LET resolved == UrlResolve(importStr, currentPath)
           exact == FindPath(filePaths,
                      {p \in Range(filePaths) :
                         \/ p = resolved
                         \/ StartsWith(p, resolved \o <<".">>)
                         \/ StartsWith(p, resolved \o <<"/">>)})
           parent == Substring0(resolved, LastIndexOf(resolved, "/"))
       IN IF exact # <<>> THEN exact
          ELSE FindPath(filePaths, {p \in Range(filePaths) : StartsWith(p, parent)})

\* a variant that records the edge at its source only
pushEdgeOneWay(h, source, target) ==
  [h EXCEPT !.nodes[source].dependencies = Append(@, h.nodes[target].uniqueId)]

\* source.dependencies.push(target.uniqueId); target.dependents.push(source.uniqueId)
pushEdge(h, source, target) ==
  [h EXCEPT !.nodes[source].dependencies = Append(@, h.nodes[target].uniqueId),
            !.nodes[target].dependents = Append(@, h.nodes[source].uniqueId)]

\* a variant that looks the binding up under its local name
localNameOf(specifier) ==
  CASE specifier.type = "ImportSpecifier" -> specifier.local
    [] specifier.type = "ImportNamespaceSpecifier" -> <<"*">>
    [] OTHER -> NameDefault

importedNameOf(specifier) ==
  CASE specifier.type = "ImportSpecifier" -> specifier.imported
    [] specifier.type = "ImportNamespaceSpecifier" -> <<"*">>
    [] OTHER -> NameDefault

\* the ImportDeclaration callback; ls = [h, importOrigins] where
\* importOrigins keeps (localName, origin) in the order they were recorded
linkImport(ls, file, sourceFileNode, node, filePaths) ==
  LET targetFilePath == resolveImportPath(node.source, file.path, filePaths)
      targetFileNode == mapGet(ls.h.map, FilePrefix \o targetFilePath)
      h1 == IF targetFileNode # 0
               /\ ls.h.nodes[sourceFileNode].uniqueId # ls.h.nodes[targetFileNode].uniqueId
            THEN pushEdge(ls.h, sourceFileNode, targetFileNode)
            ELSE ls.h
      origins == [k \in 1..Len(node.specifiers) |->
                    [local |-> node.specifiers[k].local, path |-> targetFilePath,
                     name |-> importedNameOf(node.specifiers[k])]]
  IN IF targetFilePath = <<>> THEN ls
     ELSE [h |-> h1, importOrigins |-> ls.importOrigins \o origins]

RECURSIVE linkImports(_, _, _, _, _, _)
linkImports(ls, file, sourceFileNode, body, k, filePaths) ==
  IF k > Len(body) THEN ls
  ELSE linkImports(IF body[k].t = "ImportDeclaration"
                   THEN linkImport(ls, file, sourceFileNode, body[k], filePaths)
                   ELSE ls,
                   file, sourceFileNode, body, k + 1, filePaths)

\* an Identifier callback that records the symbol identifier without looking
\* it up
linkOriginUnchecked(us, sourceFileNode, origin) ==
  LET targetSymbolId == origin.path \o <<":">> \o origin.name
  IN IF targetSymbolId \in us.usedSymbols THEN us
     ELSE [h |-> [us.h EXCEPT !.nodes[sourceFileNode].dependencies = Append(@, targetSymbolId)],
           usedSymbols |-> us.usedSymbols \cup {targetSymbolId}]

\* an Identifier callback that records the use at the symbol: the symbol is
\* the source of the edge and the importing file its target
linkOriginFromSymbol(us, sourceFileNode, origin) ==
  LET targetSymbolId == origin.path \o <<":">> \o origin.name
      targetSymbolNode == mapGet(us.h.map, targetSymbolId)
      namespaceFileNode == mapGet(us.h.map, FilePrefix \o origin.path)
  IN IF targetSymbolId \in us.usedSymbols THEN us
     ELSE IF targetSymbolNode # 0
     THEN [h |-> pushEdge(us.h, targetSymbolNode, sourceFileNode),
           usedSymbols |-> us.usedSymbols \cup {targetSymbolId}]
     ELSE IF namespaceFileNode # 0
     THEN [us EXCEPT !.h = pushEdge(us.h, sourceFileNode, namespaceFileNode)]
     ELSE us

\* one origin of one Identifier; us = [h, usedSymbols]
linkOrigin(us, sourceFileNode, origin) ==
  LET targetSymbolId == origin.path \o <<":">> \o origin.name
      targetSymbolNode == mapGet(us.h.map, targetSymbolId)
      namespaceFileNode == mapGet(us.h.map, FilePrefix \o origin.path)
  IN IF targetSymbolId \in us.usedSymbols THEN us
     ELSE IF targetSymbolNode # 0
     THEN [h |-> pushEdge(us.h, sourceFileNode, targetSymbolNode),
           usedSymbols |-> us.usedSymbols \cup {targetSymbolId}]
     ELSE IF namespaceFileNode # 0
     THEN [us EXCEPT !.h = pushEdge(us.h, sourceFileNode, namespaceFileNode)]
     ELSE us

RECURSIVE linkOrigins(_, _, _, _, _)
\* the Identifier callback: the origins recorded under the identifier's name
linkOrigins(us, sourceFileNode, importOrigins, name, k) ==
  IF k > Len(importOrigins) THEN us
  ELSE linkOrigins(IF importOrigins[k].local = name
                   THEN linkOrigin(us, sourceFileNode, importOrigins[k])
                   ELSE us,
                   sourceFileNode, importOrigins, name, k + 1)

RECURSIVE linkIdentifiers(_, _, _, _, _)
linkIdentifiers(us, sourceFileNode, importOrigins, idents, k) ==
  IF k > Len(idents) THEN us
  ELSE linkIdentifiers(linkOrigins(us, sourceFileNode, importOrigins, idents[k], 1),
                       sourceFileNode, importOrigins, idents, k + 1)

RECURSIVE AllIdents(_, _)
\* the Identifier expressions of a statement list, nested statements first
AllIdents(ns, k) ==
  IF k > Len(ns) THEN <<>>
  ELSE AllIdents(ns[k].inner \o ns[k].decl, 1) \o ns[k].idents \o AllIdents(ns, k + 1)

linkDependenciesWithAcorn(h, file, filePaths) ==
  LET sourceFileNode == mapGet(h.map, FilePrefix \o file.path)
      ls == linkImports([h |-> h, importOrigins |-> <<>>], file, sourceFileNode,
                        file.content.body, 1, filePaths)
  IN IF sourceFileNode = 0 \/ ~file.content.parses THEN h
     ELSE linkIdentifiers([h |-> ls.h, usedSymbols |-> {}], sourceFileNode,
                          ls.importOrigins, AllIdents(file.content.body, 1), 1).h

RECURSIVE linkRegexImportsOthers(_, _, _, _, _)
\* a variant that looks for the import among the paths of the other files
linkRegexImportsOthers(h, sourceFileNode, imports, k, filePaths) ==
  IF k > Len(imports) THEN h
  ELSE LET importPath == imports[k]
           resolvedPath == FindPath(filePaths,
                             {p \in Range(filePaths) :
                                Includes(p, importPath) /\ p # h.nodes[sourceFileNode].path})
           targetFileNode == mapGet(h.map, FilePrefix \o resolvedPath)
       IN linkRegexImportsOthers(
            IF resolvedPath # <<>> /\ targetFileNode # 0
            THEN pushEdge(h, sourceFileNode, targetFileNode)
            ELSE h,
            sourceFileNode, imports, k + 1, filePaths)

RECURSIVE linkRegexImports(_, _, _, _, _)
\* the loop over sourceFileNode.imports of a pattern-analysed file
linkRegexImports(h, sourceFileNode, imports, k, filePaths) ==
  IF k > Len(imports) THEN h
  ELSE LET importPath == imports[k]
           resolvedPath == FindPath(filePaths, {p \in Range(filePaths) : Includes(p, importPath)})
           targetFileNode == mapGet(h.map, FilePrefix \o resolvedPath)
       IN linkRegexImports(
            IF resolvedPath # <<>> /\ targetFileNode # 0
               /\ h.nodes[sourceFileNode].uniqueId # h.nodes[targetFileNode].uniqueId
            THEN pushEdge(h, sourceFileNode, targetFileNode)
            ELSE h,
            sourceFileNode, imports, k + 1, filePaths)

\* the body of the second loop of parseProject for one file
linkFile(h, file, filePaths) ==
  IF IsJs(file.path) THEN linkDependenciesWithAcorn(h, file, filePaths)
  ELSE LET sourceFileNode == mapGet(h.map, FilePrefix \o file.path)
       IN IF sourceFileNode = 0 THEN h
          ELSE linkRegexImports(h, sourceFileNode, h.nodes[sourceFileNode].imports, 1, filePaths)

\* ------------------------------------------- cleanup and pass 3: analysis
IsFileId(id) == StartsWith(id, FilePrefix)

\* a cleanup that leaves the lists as they are
keepEdges(ns, m) == ns

\* a cleanup that removes the duplicates of the dependencies lists only
dedupDependencies(ns, m) ==
  [k \in 1..Len(ns) |->
     IF k \in Range(mapValues(m))
     THEN [ns[k] EXCEPT !.dependencies = Dedup(@)]
     ELSE ns[k]]

\* node.dependencies = [...new Set(node.dependencies)], same for dependents,
\* for every node of the map
dedupEdges(ns, m) ==
  [k \in 1..Len(ns) |->
     IF k \in Range(mapValues(m))
     THEN [ns[k] EXCEPT !.dependencies = Dedup(@), !.dependents = Dedup(@)]
     ELSE ns[k]]

\* a variant that counts a dependent of the same file as external
hasAnyDependents(ns, m, node) ==
  \E k \in 1..Len(node.dependents) : mapGet(m, node.dependents[k]) # 0

hasExternalDependents(ns, m, node) ==
  \E k \in 1..Len(node.dependents) :
     LET dependentNode == mapGet(m, node.dependents[k])
     IN dependentNode # 0 /\ ns[dependentNode].path # node.path

\* a variant that divides the afferent couplings by the total
afferentShareOf(node) ==
  LET Ca == Len(FilterSeq(node.dependents, {id \in Range(node.dependents) : IsFileId(id)}))
      Ce == Len(FilterSeq(node.dependencies, {id \in Range(node.dependencies) : IsFileId(id)}))
      totalCouplings == Ca + Ce
  IN IF totalCouplings = 0 THEN <<0, 1>> ELSE <<Ca, totalCouplings>>

\* Ce / (Ca + Ce) as the fraction <<Ce, Ca + Ce>>; 0 is <<0, 1>>
instabilityOf(node) ==
  LET Ca == Len(FilterSeq(node.dependents, {id \in Range(node.dependents) : IsFileId(id)}))
      Ce == Len(FilterSeq(node.dependencies, {id \in Range(node.dependencies) : IsFileId(id)}))
      totalCouplings == Ca + Ce
  IN IF totalCouplings = 0 THEN <<0, 1>> ELSE <<Ce, totalCouplings>>

\* the callback of allNodesByUniqueId.forEach for one node
analyzeNode(ns, m, node) ==
  [node EXCEPT
     !.isUnused = IF node.isExported /\ ~hasExternalDependents(ns, m, node) THEN TRUE ELSE @,
     !.instability = IF node.type = "file" THEN instabilityOf(node) ELSE @]

analyzeNodes(ns, m) ==
  [k \in 1..Len(ns) |-> IF k \in Range(mapValues(m)) THEN analyzeNode(ns, m, ns[k]) ELSE ns[k]]

\* Array.from(allNodesByUniqueId.values()).filter(n => n.type === 'file'),
\* as unique ids
fileNodesOf(ns, m) ==
  LET vals == mapValues(m)
      files == FilterSeq(vals, {v \in Range(vals) : ns[v].type = "file"})
  IN [k \in 1..Len(files) |-> ns[files[k]].uniqueId]

\* the adjacency Map: the file-level dependencies of every file node
adjOf(ns, m) ==
  LET vals == mapValues(m)
      files == FilterSeq(vals, {v \in Range(vals) : ns[v].type = "file"})
  IN [k \in 1..Len(files) |->
        [key |-> ns[files[k]].uniqueId,
         val |-> Dedup(FilterSeq(ns[files[k]].dependencies,
                                 {d \in Range(ns[files[k]].dependencies) : IsFileId(d)}))]]

\* adj.get(u) || []
neighborsOf(a, u) ==
  IF \E k \in 1..Len(a) : a[k].key = u
  THEN a[CHOOSE k \in 1..Len(a) : a[k].key = u].val
  ELSE <<>>

\* cycles.forEach: mark the nodes of the map whose id is in cycles
markCyclic(ns, m, cyc) ==
  [k \in 1..Len(ns) |->
     IF ns[k].uniqueId \in cyc /\ mapGet(m, ns[k].uniqueId) = k
     THEN [ns[k] EXCEPT !.isCyclic = TRUE] ELSE ns[k]]

\* ----------------------------------------------------------- final sort
\* the collation order of the characters that occur in names
Alphabet == <<"_", ":", ".", "/", "*", "0", "1", "a", "b", "c", "d", "e", "f", "g", "h",
              "i", "j", "k", "K", "l", "m", "n", "N", "o", "p", "P", "q", "Q", "r", "s",
              "S", "t", "u", "v", "w", "W", "x", "y", "z">>

CharRank(ch) ==
  IF \E k \in 1..Len(Alphabet) : Alphabet[k] = ch
  THEN CHOOSE k \in 1..Len(Alphabet) : Alphabet[k] = ch
  ELSE 0

RECURSIVE localeCompare(_, _)
\* a.localeCompare(b): negative, zero or positive
localeCompare(a, b) ==
  IF a = <<>> /\ b = <<>> THEN 0
  ELSE IF a = <<>> THEN -1
  ELSE IF b = <<>> THEN 1
  ELSE IF CharRank(a[1]) # CharRank(b[1]) THEN CharRank(a[1]) - CharRank(b[1])
  ELSE localeCompare(Tail(a), Tail(b))

\* a comparator that looks at the names only
compareNames(a, b) == localeCompare(a.name, b.name)

\* the comparator of sortNodes
compareNodes(a, b) ==
  IF a.type = "directory" /\ b.type # "directory" THEN -1
  ELSE IF a.type # "directory" /\ b.type = "directory" THEN 1
  ELSE localeCompare(a.name, b.name)

RECURSIVE insertSorted(_, _, _)
\* stable insertion: x goes after every element that does not sort after it
insertSorted(ns, sorted, x) ==
  IF sorted = <<>> THEN <<x>>
  ELSE IF compareNodes(ns[sorted[Len(sorted)]], ns[x]) <= 0 THEN Append(sorted, x)
  ELSE Append(insertSorted(ns, SubSeq(sorted, 1, Len(sorted) - 1), x), sorted[Len(sorted)])

RECURSIVE sortChildren(_, _, _)
\* Array.prototype.sort (stable) of a children array
sortChildren(ns, cs, k) ==
  IF k = 0 THEN <<>>
  ELSE insertSorted(ns, sortChildren(ns, cs, k - 1), cs[k])

\* sortNodes(root): every node's children array is sorted
sortNodes(ns) ==
  [k \in 1..Len(ns) |-> [ns[k] EXCEPT !.children = sortChildren(ns, @, Len(@))]]

\* ------------------------------------------------------------ the inputs
P_A == <<"a", ".", "t", "s">>

P_B == <<"b", ".", "t", "s">>

P_C == <<"l", "i", "b", "/", "c", ".", "j", "s">>

P_X == <<"x", ".", "p", "y">>

Universe == <<P_A, P_B, P_C, P_X>>

JsPaths == <<P_A, P_B, P_C>>

\* the relative specifier a file of the universe uses for another one
Specifier(from, to) ==
  LET up == IF from = P_C THEN <<".", ".", "/">> ELSE <<".", "/">>
  IN CASE to = P_A -> up \o <<"a">>
       [] to = P_B -> up \o <<"b">>
       [] to = P_C -> IF from = P_C THEN <<".", "/", "c">>
                      ELSE <<".", "/", "l", "i", "b", "/", "c">>

T1(p) == CASE p = P_A -> P_B [] p = P_B -> P_A [] p = P_C -> P_A

T2(p) == CASE p = P_A -> P_C [] p = P_B -> P_C [] p = P_C -> P_B

Ident == Leaf("Identifier")

\* { if (x) { for (;;) {} } }
BodyIfFor ==
  Block(<<Mk("IfStatement", <<>>,
             <<Ident, Block(<<Mk("ForStatement", <<>>, <<Block(<<>>)>>)>>)>>)>>)

\* { try {} catch (e) { while (x) {} } }
BodyTry ==
  Block(<<Mk("TryStatement", <<>>,
             <<Block(<<>>),
               Mk("CatchClause", <<>>,
                  <<Block(<<Mk("WhileStatement", <<>>, <<Ident, Block(<<>>)>>)>>)>>)>>)>>)

\* { return f(); }
BodyRec ==
  Block(<<Mk("ReturnStatement", <<>>, <<Mk("CallExpression", <<"f">>, <<Ident>>)>>)>>)

JsContent(body) == [parses |-> TRUE, body |-> body, lines |-> <<>>]

\* export function f(){ if (x) { for(;;){} } }  var v = 1; var v;  export default v
JsLibrary ==
  <<ExportNamedDeclaration(<<FunctionDeclaration(<<"f">>, BodyIfFor, 1)>>, <<>>, 1),
    VariableDeclaration(<<Declarator(<<"v">>, "Literal", NoBody, 2)>>, 2),
    VariableDeclaration(<<Declarator(<<"v">>, "", NoBody, 3)>>, 3),
    [ExportDefaultDeclaration(Expr("Identifier", <<"v">>, NoBody, 4), 4)
       EXCEPT !.idents = << <<"v">> >>]>>

\* import {f} from T1; f();  function g(){ return f(); }  export {g}
JsNamed(p) ==
  <<ImportDeclaration(Specifier(p, T1(p)), <<ImportSpecifier(<<"f">>, <<"f">>)>>),
    ExpressionStatement(<< <<"f">> >>),
    [FunctionDeclaration(<<"g">>, BodyRec, 3) EXCEPT !.idents = << <<"f">> >>],
    ExportNamedDeclaration(<<>>, << <<"g">> >>, 4)>>

\* import * as n from T2; import d from T1; n.x(d); n.y;  export {h};
\* function h(){}  class K { m(){ try {} catch (e) { while (x) {} } } }
JsNamespace(p) ==
  <<ImportDeclaration(Specifier(p, T2(p)), <<ImportNamespaceSpecifier(<<"n">>)>>),
    ImportDeclaration(Specifier(p, T1(p)), <<ImportDefaultSpecifier(<<"d">>)>>),
    ExpressionStatement(<< <<"n">>, <<"d">> >>),
    ExpressionStatement(<< <<"n">> >>),
    ExportNamedDeclaration(<<>>, << <<"h">> >>, 5),
    FunctionDeclaration(<<"h">>, Block(<<>>), 6),
    ClassDeclaration(<<"K">>, <<[key |-> <<"m">>, body |-> BodyTry, loc |-> 8]>>, 7)>>

\* import {f as q, f as r} from T2; q(); r(q);  export const k = () => { if ... }
JsAlias(p) ==
  <<ImportDeclaration(Specifier(p, T2(p)),
                      <<ImportSpecifier(<<"f">>, <<"q">>), ImportSpecifier(<<"f">>, <<"r">>)>>),
    ExpressionStatement(<< <<"q">> >>),
    ExpressionStatement(<< <<"r">>, <<"q">> >>),
    ExportNamedDeclaration(
      <<VariableDeclaration(<<Declarator(<<"k">>, "ArrowFunctionExpression", BodyIfFor, 4)>>, 4)>>,
      <<>>, 4)>>

\* import {f as s} from <self>; import * as me from <self>; s(me);
\* export function f(){ return f(); }
JsSelf(p) ==
  <<ImportDeclaration(Specifier(p, p), <<ImportSpecifier(<<"f">>, <<"s">>)>>),
    ImportDeclaration(Specifier(p, p), <<ImportNamespaceSpecifier(<<"m", "e">>)>>),
    ExpressionStatement(<< <<"s">>, <<"m", "e">> >>),
    ExportNamedDeclaration(<<FunctionDeclaration(<<"f">>, BodyRec, 4)>>, <<>>, 4)>>

PyContent(lines) == [parses |-> TRUE, body |-> <<>>, lines |-> lines]

\* def g(): / if a: / for i in y: / pass
PyScenario ==
  <<Line(0, "def", <<"g">>, 0, {<<"g">>}),
    Line(4, "if", <<>>, 0, {<<"a">>}),
    Line(8, "for", <<>>, 0, {<<"i">>, <<"y">>}),
    Line(12, "stmt", <<>>, 0, {<<"p", "a", "s", "s">>})>>

\* import a / class g: / def g(self): / while g and a: / def h(): / if a: / else:
PyModule ==
  <<Line(0, "import", <<"a">>, 0, {<<"a">>}),
    Line(0, "class", <<"g">>, 0, {<<"g">>}),
    Line(4, "def", <<"g">>, 0, {<<"g">>}),
    Line(8, "while", <<>>, 1, {<<"g">>, <<"a">>}),
    Line(0, "def", <<"h">>, 0, {<<"h">>}),
    Line(4, "if", <<>>, 0, {<<"a">>}),
    Line(4, "else", <<>>, 0, {})>>

\* the contents a file of the universe can have
ContentsOf(p) ==
  IF IsJs(p)
  THEN <<JsContent(JsLibrary), JsContent(JsNamed(p)), JsContent(JsNamespace(p)),
         JsContent(JsAlias(p)), JsContent(JsSelf(p))>>
  ELSE <<PyContent(PyScenario), PyContent(PyModule)>>

ContentOf(p, v) == ContentsOf(p)[v]

Min(a, b) == IF a < b THEN a ELSE b

\* the selections of up to MaxFiles distinct files of the universe, in any
\* order
Orders ==
  UNION {{q \in [1..n -> 1..Len(Universe)] : \A a, b \in 1..n : a # b => q[a] # q[b]} :
         n \in 1..Min(MaxFiles, Len(Universe))}

\* the choices of one content for each file of a selection
Variants(ps) ==
  {w \in [1..Len(ps) -> 1..Len(ContentsOf(P_A))] :
     \A k \in 1..Len(ps) : w[k] <= Len(ContentsOf(Universe[ps[k]]))}

\* a project: the input of parseProject
Project(ps, vs) ==
  [k \in 1..Len(ps) |-> [path |-> Universe[ps[k]], content |-> ContentOf(Universe[ps[k]], vs[k])]]

\* ------------------------------------------------ a second set of projects
P_D == <<"d", ".", "j", "s">>

P_M == <<"m", ".", "c">>

P_H == <<"u", ".", "h">>

P_N == <<"n", ".", "m">>

P_Z == <<"z", "z", "z", ".", "m", "d">>

MixedUniverse == <<P_A, P_D, P_M, P_H, P_N, P_Z>>

\* import {f} from './a'; f(); function g(){ return f(); } export {g} )
\* content that acorn.parse rejects; body keeps the statements before the
\* syntax error
JsBroken ==
  [parses |-> FALSE, lines |-> <<>>,
   body |-> <<ImportDeclaration(<<".", "/", "a">>, <<ImportSpecifier(<<"f">>, <<"f">>)>>),
              ExpressionStatement(<< <<"f">> >>),
              [FunctionDeclaration(<<"g">>, BodyRec, 3) EXCEPT !.idents = << <<"f">> >>],
              ExportNamedDeclaration(<<>>, << <<"g">> >>, 4)>>]

\* import {f} from './zzz'; f();
JsUnresolved ==
  <<ImportDeclaration(<<".", "/", "z", "z", "z">>, <<ImportSpecifier(<<"f">>, <<"f">>)>>),
    ExpressionStatement(<< <<"f">> >>)>>

\* import r from 'react'; r();
JsBare ==
  <<ImportDeclaration(<<"r", "e", "a", "c", "t">>, <<ImportDefaultSpecifier(<<"r">>)>>),
    ExpressionStatement(<< <<"r">> >>)>>

\* export default <wrapped>; function t(){}
JsDefault(wrapped) ==
  <<ExportDefaultDeclaration(wrapped, 1), FunctionDeclaration(<<"t">>, Block(<<>>), 2)>>

\* what a default export wraps: function w(){...}, function(){...},
\* class W { m(){} }, class { m(){} }, class {}, () => {...}, 1
DefaultWrapped ==
  <<FunctionDeclaration(<<"w">>, BodyIfFor, 1),
    FunctionDeclaration(<<>>, BodyIfFor, 1),
    ClassDeclaration(<<"W">>, <<[key |-> <<"m">>, body |-> Block(<<>>), loc |-> 1]>>, 1),
    ClassDeclaration(<<>>, <<[key |-> <<"m">>, body |-> Block(<<>>), loc |-> 1]>>, 1),
    ClassDeclaration(<<>>, <<>>, 1),
    Expr("ArrowFunctionExpression", <<>>, BodyIfFor, 1),
    Expr("Literal", <<>>, NoBody, 1)>>

\* { return a && b; }
BodyLogic ==
  Block(<<Mk("ReturnStatement", <<>>, <<Mk("LogicalExpression", OpAnd, <<Ident, Ident>>)>>)>>)

\* function f(){ function g(){ return a && b; } }  function g(){}
\* function k(){ t(); }
JsNested ==
  <<[FunctionDeclaration(<<"f">>, Block(<<Mk("FunctionDeclaration", <<>>, <<BodyLogic>>)>>), 1)
       EXCEPT !.inner = <<FunctionDeclaration(<<"g">>, BodyLogic, 1)>>],
    FunctionDeclaration(<<"g">>, Block(<<>>), 2),
    [FunctionDeclaration(<<"k">>,
                         Block(<<Mk("ExpressionStatement", <<>>,
                                    <<Mk("CallExpression", <<"t">>, <<Ident>>)>>)>>), 3)
       EXCEPT !.idents = << <<"t">> >>]>>

\* function f(){ var g = () => {}; }  class g {}  export { g }
JsShadow ==
  <<[FunctionDeclaration(<<"f">>,
                         Block(<<Mk("VariableDeclaration", <<>>,
                                    <<Mk("ArrowFunctionExpression", <<>>, <<Block(<<>>)>>)>>)>>), 1)
       EXCEPT !.inner = <<VariableDeclaration(
                            <<Declarator(<<"g">>, "ArrowFunctionExpression", Block(<<>>), 1)>>, 1)>>],
    ClassDeclaration(<<"g">>, <<>>, 2),
    ExportNamedDeclaration(<<>>, << <<"g">> >>, 3)>>

Wint == W(<<"i","n","t">>)

Wn == W(<<"n">>)

Wreturn == W(<<"r","e","t","u","r","n">>)

Include(path) == CppLine(<<K("#include"), W(path)>>)

CContent(lines) == [parses |-> TRUE, body |-> <<>>, lines |-> lines]

\* int h(int n){ if(n>0){ return h(n-1); } return 0; }
CScenario ==
  <<CppLine(<<Wint, W(<<"h">>), K("("), Wint, Wn, K(")"), K("{"),
              W(<<"i","f">>), K("("), Wn, K(">"), W(<<"0">>), K(")"), K("{"),
              Wreturn, W(<<"h">>), K("("), Wn, K("-"), W(<<"1">>), K(")"), K(";"), K("}"),
              Wreturn, W(<<"0">>), K(";"), K("}")>>)>>

\* #include "u.h" / int g(int n) { / return n ? g(n - 1) : 0; / } /
\* struct S { / int x; / };
CTernary ==
  <<Include(P_H),
    CppLine(<<Wint, W(<<"g">>), K("("), Wint, Wn, K(")"), K("{")>>),
    CppLine(<<Wreturn, Wn, K("?"), W(<<"g">>), K("("), Wn, K("-"), W(<<"1">>), K(")"),
              K(":"), W(<<"0">>), K(";")>>),
    CppLine(<<K("}")>>),
    CppLine(<<W(<<"s","t","r","u","c","t">>), W(<<"S">>), K("{")>>),
    CppLine(<<Wint, W(<<"x">>), K(";")>>),
    CppLine(<<K("}"), K(";")>>)>>

\* #include "u.h" / void k(int n) const { / while (n && k(n)) { n--; } // if / }
CLoop ==
  <<Include(P_H),
    CppLine(<<W(<<"v","o","i","d">>), W(<<"k">>), K("("), Wint, Wn, K(")"),
              W(<<"c","o","n","s","t">>), K("{")>>),
    CppLine(<<W(<<"w","h","i","l","e">>), K("("), Wn, K("&&"), W(<<"k">>), K("("), Wn, K(")"),
              K(")"), K("{"), Wn, K("--"), K(";"), K("}"), K("//"), W(<<"i","f">>)>>),
    CppLine(<<K("}")>>)>>

\* int z() { return 0; }
CPlain ==
  <<CppLine(<<Wint, W(<<"z">>), K("("), K(")"), K("{"), Wreturn, W(<<"0">>), K(";"), K("}")>>)>>

\* int y() { if (n) { / return 0; /          (the block of the if is not closed)
CUnclosed ==
  <<CppLine(<<Wint, W(<<"y">>), K("("), K(")"), K("{"), W(<<"i","f">>), K("("), Wn, K(")"),
              K("{")>>),
    CppLine(<<Wreturn, W(<<"0">>), K(";")>>)>>

\* - (int) run { / if (a) { / }             (the body of run is not closed)
ObjcUnclosed ==
  <<ObjcLine(<<K("-"), K("("), Wint, K(")"), W(<<"r","u","n">>), K("{")>>),
    ObjcLine(<<W(<<"i","f">>), K("("), W(<<"a">>), K(")"), K("{")>>),
    ObjcLine(<<K("}")>>)>>

\* #import "m" / #import "m.c" / #import "u.h"
ObjcImports ==
  <<ObjcLine(<<K("#import"), W(<<"m">>)>>),
    ObjcLine(<<K("#import"), W(P_M)>>),
    ObjcLine(<<K("#import"), W(P_H)>>)>>

\* #include "<path>" / struct S { int x; }; / class Q;
Header(path) ==
  <<Include(path),
    CppLine(<<W(<<"s","t","r","u","c","t">>), W(<<"S">>), K("{"), Wint, W(<<"x">>), K(";"),
              K("}"), K(";")>>),
    CppLine(<<W(<<"c","l","a","s","s">>), W(<<"Q">>), K(";")>>)>>

\* #import "u.h" / @interface N / - (int) run { / if (a && b) { / } / } /
\* @protocol P
ObjcModule ==
  <<ObjcLine(<<K("#import"), W(P_H)>>),
    ObjcLine(<<K("@interface"), W(<<"N">>)>>),
    ObjcLine(<<K("-"), K("("), Wint, K(")"), W(<<"r","u","n">>), K("{")>>),
    ObjcLine(<<W(<<"i","f">>), K("("), W(<<"a">>), K("&&"), W(<<"b">>), K(")"), K("{")>>),
    ObjcLine(<<K("}")>>),
    ObjcLine(<<K("}")>>),
    ObjcLine(<<K("@protocol"), W(<<"P">>)>>)>>

\* the contents a file of the second universe can have
MixedContentsOf(p) ==
  CASE p = P_A -> <<JsContent(JsLibrary)>>
    [] p = P_D -> <<JsBroken, JsContent(JsUnresolved), JsContent(JsBare),
                    JsContent(JsNested), JsContent(JsShadow)>> \o
                  [k \in 1..Len(DefaultWrapped) |-> JsContent(JsDefault(DefaultWrapped[k]))]
    [] p = P_M -> <<CContent(CScenario), CContent(CTernary), CContent(CLoop), CContent(CPlain),
                    CContent(CUnclosed)>>
    [] p = P_H -> <<CContent(Header(P_M)),
                    CContent(Header(<<"m","i","s","s","i","n","g",".","h">>)),
                    CContent(Header(P_H))>>
    [] p = P_N -> <<CContent(ObjcModule), CContent(ObjcUnclosed), CContent(ObjcImports)>>
    [] OTHER -> <<JsContent(JsLibrary)>>

MixedOrders ==
  UNION {{q \in [1..n -> 1..Len(MixedUniverse)] : \A a, b \in 1..n : a # b => q[a] # q[b]} :
         n \in 1..Min(MaxMixed, Len(MixedUniverse))}

MixedVariants(ps) ==
  {w \in [1..Len(ps) -> 1..Len(MixedContentsOf(P_D))] :
     \A k \in 1..Len(ps) : w[k] <= Len(MixedContentsOf(MixedUniverse[ps[k]]))}

MixedProject(ps, vs) ==
  [k \in 1..Len(ps) |-> [path |-> MixedUniverse[ps[k]],
                         content |-> MixedContentsOf(MixedUniverse[ps[k]])[vs[k]]]]

\* ------------------------------------------- inputs of the pure functions
GenTypes == {"IfStatement", "ForStatement", "WhileStatement", "DoWhileStatement",
             "SwitchStatement", "ConditionalExpression", "CatchClause",
             "ArrowFunctionExpression"}

\* f();
SelfCall == Mk("ExpressionStatement", <<>>, <<Mk("CallExpression", <<"f">>, <<Ident>>)>>)

\* a && b || c;
LogicalMix ==
  Mk("ExpressionStatement", <<>>,
     <<Mk("LogicalExpression", OpOr,
          <<Mk("LogicalExpression", OpAnd, <<Ident, Ident>>), Ident>>)>>)

GenLeaves == {Leaf("EmptyStatement"), SelfCall, LogicalMix}

\* the statement of type t whose body is the statement k
Wrap(t, k) ==
  CASE t = "IfStatement" -> Mk(t, <<>>, <<Ident, Block(<<k>>)>>)
    [] t = "ForStatement" -> Mk(t, <<>>, <<Block(<<k>>)>>)
    [] t \in {"WhileStatement", "DoWhileStatement"} -> Mk(t, <<>>, <<Ident, Block(<<k>>)>>)
    [] t = "SwitchStatement" ->
         Mk(t, <<>>, <<Ident, Mk("SwitchCase", <<>>, <<k>>)>>)
    [] t = "ConditionalExpression" ->
         Mk("ExpressionStatement", <<>>,
            <<Mk(t, <<>>, <<Ident, Mk("ArrowFunctionExpression", <<>>, <<Block(<<k>>)>>), Ident>>)>>)
    [] t = "CatchClause" ->
         Mk("TryStatement", <<>>, <<Block(<<>>), Mk(t, <<>>, <<Block(<<k>>)>>)>>)
    [] OTHER ->
         Mk("ExpressionStatement", <<>>, <<Mk(t, <<>>, <<Block(<<k>>)>>)>>)

RECURSIVE Gen(_)
\* the statements nested at most d deep
Gen(d) ==
  IF d = 0 THEN GenLeaves
  ELSE GenLeaves \cup {Wrap(t, k) : t \in GenTypes, k \in Gen(d - 1)}

\* function f() { <statements> }
CcInput(stmts) == [id |-> <<"f">>, body |-> Block(stmts)]

PyHeader == Line(0, "def", <<"g">>, 0, {<<"g">>})

PyLines ==
  {Line(n, hd, <<>>, 0, {}) : n \in {4, 8, 12}, hd \in {"if", "for", "elif", "stmt"}}
  \cup {Line(0, "stmt", <<>>, 0, {}), Line(0, "", <<>>, 0, {}),
        Line(4, "#", <<>>, 0, {<<"g">>}), Line(8, "stmt", <<>>, 1, {<<"g">>})}

\* def g(): followed by the lines b
PyInput(b) == <<PyHeader>> \o b

\* ------------------------------------------------------------ the state
VARIABLES files, pc, i, nodes, allNodesByUniqueId, adj, fileNodes, visited,
          recursionStack, cycles, callStack, returning, calls,
          ccIn, ccOut, pyIn, pyOut, treeData, view

vars == <<files, pc, i, nodes, allNodesByUniqueId, adj, fileNodes, visited,
          recursionStack, cycles, callStack, returning, calls,
          ccIn, ccOut, pyIn, pyOut, treeData, view>>

engineVars == <<files, pc, i, nodes, allNodesByUniqueId, adj, fileNodes, visited,
                recursionStack, cycles, callStack, returning, calls>>

viewVars == <<treeData, view>>

dfsVars == <<adj, fileNodes, visited, recursionStack, cycles, callStack, returning, calls>>

\* no filter at all
unfilteredFiles == files

\* files.filter(f => f.path && allSupportedExtensions.some(ext => f.path.endsWith(ext)))
filteredFiles == FilterSeq(files, {f \in Range(files) : IsSupported(f.path)})

filePaths == [k \in 1..Len(filteredFiles) |-> filteredFiles[k].path]

heap == [nodes |-> nodes, map |-> allNodesByUniqueId, thrown |-> FALSE]

NoFunction == [id |-> <<>>, body |-> NoBody]

\* a reference to an object: an engine node (space "data", index into
\* nodes) or an object created by the map component (space "view")
DataRef(k) == [space |-> "data", at |-> k]

ViewRef(k) == [space |-> "view", at |-> k]

\* useState<TreeNode>(data): the component starts with the engine's tree
InitView ==
  /\ treeData = DataRef(1)
  /\ view = <<>>

InitEngine ==
  /\ pc = IF filteredFiles = <<>> THEN "cleanup" ELSE "discover"
  /\ i = 1
  /\ nodes = <<RootNode>>
  /\ allNodesByUniqueId = <<>>
  /\ adj = <<>>
  /\ fileNodes = <<>>
  /\ visited = {}
  /\ recursionStack = {}
  /\ cycles = {}
  /\ callStack = <<>>
  /\ returning = FALSE
  /\ calls = <<>>

Init ==
  /\ \E ps \in Orders : \E vs \in Variants(ps) : files = Project(ps, vs)
  /\ InitEngine
  /\ ccIn = NoFunction /\ ccOut = Undef
  /\ pyIn = <<>> /\ pyOut = Undef
  /\ InitView

\* a single loop that links each file right after extracting it
DiscoverLinking ==
  /\ pc = "discover"
  /\ i <= Len(filteredFiles)
  /\ LET h == linkFile(discoverFile(heap, filteredFiles[i]), filteredFiles[i], filePaths)
     IN /\ nodes' = h.nodes
        /\ allNodesByUniqueId' = h.map
  /\ IF i = Len(filteredFiles) THEN pc' = "link" /\ i' = 1 ELSE pc' = pc /\ i' = i + 1
  /\ UNCHANGED <<files, dfsVars, ccIn, ccOut, pyIn, pyOut, viewVars>>

\* pass 1, one file
Discover ==
  /\ pc = "discover"
  /\ i <= Len(filteredFiles)
  /\ LET h == discoverFile(heap, filteredFiles[i])
     IN /\ nodes' = h.nodes
        /\ allNodesByUniqueId' = h.map
  /\ IF i = Len(filteredFiles) THEN pc' = "link" /\ i' = 1 ELSE pc' = pc /\ i' = i + 1
  /\ UNCHANGED <<files, dfsVars, ccIn, ccOut, pyIn, pyOut, viewVars>>

\* pass 2, one file
Link ==
  /\ pc = "link"
  /\ i <= Len(filteredFiles)
  /\ LET h == linkFile(heap, filteredFiles[i], filePaths)
     IN /\ nodes' = h.nodes
        /\ allNodesByUniqueId' = h.map
  /\ IF i = Len(filteredFiles) THEN pc' = "cleanup" /\ i' = 1 ELSE pc' = pc /\ i' = i + 1
  /\ UNCHANGED <<files, dfsVars, ccIn, ccOut, pyIn, pyOut, viewVars>>

\* the cleanup of the edge lists
Cleanup ==
  /\ pc = "cleanup"
  /\ nodes' = dedupEdges(nodes, allNodesByUniqueId)
  /\ pc' = "analyze"
  /\ UNCHANGED <<files, i, allNodesByUniqueId, dfsVars, ccIn, ccOut, pyIn, pyOut, viewVars>>

\* pass 3: unused exports, instability, and the adjacency lists
Analyze ==
  /\ pc = "analyze"
  /\ nodes' = analyzeNodes(nodes, allNodesByUniqueId)
  /\ fileNodes' = fileNodesOf(nodes, allNodesByUniqueId)
  /\ adj' = adjOf(nodes, allNodesByUniqueId)
  /\ pc' = "cycles"
  /\ i' = 1
  /\ UNCHANGED <<files, allNodesByUniqueId, visited, recursionStack, cycles, callStack,
                 returning, calls, ccIn, ccOut, pyIn, pyOut, viewVars>>

\* a variant of the loop over fileNodes without the test of visited
Remaining == i..Len(fileNodes)

Unvisited == {k \in i..Len(fileNodes) : fileNodes[k] \notin visited}

\* the loop over fileNodes: the next unvisited file node starts a traversal
DetectRoot ==
  /\ pc = "cycles"
  /\ callStack = <<>>
  /\ Unvisited # {}
  /\ LET k == CHOOSE k \in Unvisited : \A m \in Unvisited : k <= m
         u == fileNodes[k]
     IN /\ visited' = visited \cup {u}
        /\ recursionStack' = recursionStack \cup {u}
        /\ callStack' = <<[u |-> u, k |-> 1]>>
        /\ calls' = Append(calls, u)
        /\ i' = k + 1
  /\ returning' = FALSE
  /\ UNCHANGED <<files, pc, nodes, allNodesByUniqueId, adj, fileNodes, cycles,
                 ccIn, ccOut, pyIn, pyOut, viewVars>>

Pop(s) == SubSeq(s, 1, Len(s) - 1)

\* a variant that takes u off recursionStack before it returns true
DfsStepDeleting ==
  /\ pc = "cycles"
  /\ callStack # <<>>
  /\ ~returning
  /\ LET top == callStack[Len(callStack)]
         u == top.u
         neighbors == neighborsOf(adj, u)
         v == neighbors[top.k]
     IN IF top.k > Len(neighbors)
        THEN /\ recursionStack' = recursionStack \ {u}
             /\ callStack' = Pop(callStack)
             /\ UNCHANGED <<visited, cycles, returning, calls, viewVars>>
        ELSE IF v \notin visited
        THEN /\ visited' = visited \cup {v}
             /\ recursionStack' = recursionStack \cup {v}
             /\ callStack' = Append([callStack EXCEPT ![Len(callStack)].k = @ + 1],
                                    [u |-> v, k |-> 1])
             /\ calls' = Append(calls, v)
             /\ UNCHANGED <<cycles, returning, viewVars>>
        ELSE IF v \in recursionStack
        THEN /\ cycles' = cycles \cup {u, v}
             /\ callStack' = Pop(callStack)
             /\ returning' = TRUE
             /\ recursionStack' = recursionStack \ {u}
             /\ UNCHANGED <<visited, calls, viewVars>>
        ELSE /\ callStack' = [callStack EXCEPT ![Len(callStack)].k = @ + 1]
             /\ UNCHANGED <<visited, recursionStack, cycles, returning, calls, viewVars>>
  /\ UNCHANGED <<files, pc, i, nodes, allNodesByUniqueId, adj, fileNodes,
                 ccIn, ccOut, pyIn, pyOut, viewVars>>

\* detectCycleUtil(u), one iteration of its loop or its end
DfsStep ==
  /\ pc = "cycles"
  /\ callStack # <<>>
  /\ ~returning
  /\ LET top == callStack[Len(callStack)]
         u == top.u
         neighbors == neighborsOf(adj, u)
         v == neighbors[top.k]
     IN IF top.k > Len(neighbors)
        THEN /\ recursionStack' = recursionStack \ {u}
             /\ callStack' = Pop(callStack)
             /\ UNCHANGED <<visited, cycles, returning, calls, viewVars>>
        ELSE IF v \notin visited
        THEN /\ visited' = visited \cup {v}
             /\ recursionStack' = recursionStack \cup {v}
             /\ callStack' = Append([callStack EXCEPT ![Len(callStack)].k = @ + 1],
                                    [u |-> v, k |-> 1])
             /\ calls' = Append(calls, v)
             /\ UNCHANGED <<cycles, returning, viewVars>>
        ELSE IF v \in recursionStack
        THEN /\ cycles' = cycles \cup {u, v}
             /\ callStack' = Pop(callStack)
             /\ returning' = TRUE
             /\ UNCHANGED <<visited, recursionStack, calls, viewVars>>
        ELSE /\ callStack' = [callStack EXCEPT ![Len(callStack)].k = @ + 1]
             /\ UNCHANGED <<visited, recursionStack, cycles, returning, calls, viewVars>>
  /\ UNCHANGED <<files, pc, i, nodes, allNodesByUniqueId, adj, fileNodes,
                 ccIn, ccOut, pyIn, pyOut, viewVars>>

\* a variant in which the caller returns true without adding itself
DfsUnwindSilent ==
  /\ pc = "cycles"
  /\ callStack # <<>>
  /\ returning
  /\ callStack' = Pop(callStack)
  /\ UNCHANGED <<files, pc, i, nodes, allNodesByUniqueId, adj, fileNodes, visited,
                 recursionStack, cycles, returning, calls, ccIn, ccOut, pyIn, pyOut, viewVars>>

\* a call of detectCycleUtil returned true: its caller adds itself and
\* returns true as well
DfsUnwind ==
  /\ pc = "cycles"
  /\ callStack # <<>>
  /\ returning
  /\ cycles' = cycles \cup {callStack[Len(callStack)].u}
  /\ callStack' = Pop(callStack)
  /\ UNCHANGED <<files, pc, i, nodes, allNodesByUniqueId, adj, fileNodes, visited,
                 recursionStack, returning, calls, ccIn, ccOut, pyIn, pyOut, viewVars>>

\* the cyclic files are marked, the tree is sorted and returned
Finish ==
  /\ pc = "cycles"
  /\ callStack = <<>>
  /\ Unvisited = {}
  /\ nodes' = sortNodes(markCyclic(nodes, allNodesByUniqueId, cycles))
  /\ pc' = "done"
  /\ UNCHANGED <<files, i, allNodesByUniqueId, dfsVars, ccIn, ccOut, pyIn, pyOut, viewVars>>

Next == Discover \/ Link \/ Cleanup \/ Analyze \/ DetectRoot \/ DfsStep \/ DfsUnwind \/ Finish

Spec == Init /\ [][Next]_vars

\* the engine on the projects of the second set
InitMixed ==
  /\ \E ps \in MixedOrders : \E vs \in MixedVariants(ps) : files = MixedProject(ps, vs)
  /\ InitEngine
  /\ ccIn = NoFunction /\ ccOut = Undef
  /\ pyIn = <<>> /\ pyOut = Undef
  /\ InitView

SpecMixed == InitMixed /\ [][Next]_vars

\* ------------------------------------------------- the map component
\* An object of the component keeps the fields of a TreeNode (node) and its
\* two optional arrays, children and _children (hidden); an array is absent
\* (def = FALSE) or a list of references.  The store is the engine's heap
\* (data) next to the component's objects (view).
NoArray == [def |-> FALSE, items |-> <<>>]

Array(items) == [def |-> TRUE, items |-> items]

\* node.children of the object at r: the engine gives files and directories
\* an array and symbols none
childrenOf(st, r) ==
  IF r.space = "view" THEN st.view[r.at].children
  ELSE IF st.data[r.at].type \in {"file", "directory"}
  THEN Array([k \in 1..Len(st.data[r.at].children) |-> DataRef(st.data[r.at].children[k])])
  ELSE NoArray

\* node._children of the object at r
hiddenOf(st, r) == IF r.space = "view" THEN st.view[r.at].hidden ELSE NoArray

fieldsOf(st, r) ==
  IF r.space = "view" THEN st.view[r.at].node ELSE [st.data[r.at] EXCEPT !.children = <<>>]

\* a new object with the given fields and arrays
allocate(st, fields, children, hidden) ==
  [st |-> [st EXCEPT !.view = Append(@, [node |-> fields, children |-> children,
                                        hidden |-> hidden])],
   ref |-> ViewRef(Len(st.view) + 1)]

\* node._children = children; node.children = undefined, on the object at r
\* itself
collapse(st, r, children) ==
  IF r.space = "view"
  THEN [st EXCEPT !.view[r.at].children = NoArray, !.view[r.at].hidden = children]
  ELSE [st EXCEPT !.data[r.at].children = <<>>]

\* the object itself instead of a copy
sameObject(st, r) == [st |-> st, ref |-> r]

RECURSIVE deepCopy(_, _)
RECURSIVE deepCopyList(_, _, _)
\* JSON.parse(JSON.stringify(data)): new objects for the whole tree under r
deepCopy(st, r) ==
  LET children == childrenOf(st, r)
      hidden == hiddenOf(st, r)
      c == deepCopyList(st, children.items, 1)
      d == deepCopyList(c.st, hidden.items, 1)
  IN allocate(d.st, fieldsOf(st, r),
              IF children.def THEN Array(c.refs) ELSE NoArray,
              IF hidden.def THEN Array(d.refs) ELSE NoArray)

deepCopyList(st, items, k) ==
  IF k > Len(items) THEN [st |-> st, refs |-> <<>>]
  ELSE LET a == deepCopy(st, items[k])
           rest == deepCopyList(a.st, items, k + 1)
       IN [st |-> rest.st, refs |-> <<a.ref>> \o rest.refs]

RECURSIVE prepareTree(_, _)
RECURSIVE prepareTreeList(_, _, _)
\* prepareTree: the files that have symbols start collapsed
prepareTree(st, r) ==
  LET children == childrenOf(st, r)
  IN IF fieldsOf(st, r).type = "file" /\ children.def /\ Len(children.items) > 0
     THEN collapse(st, r, children)
     ELSE IF children.def THEN prepareTreeList(st, children.items, 1)
     ELSE st

prepareTreeList(st, items, k) ==
  IF k > Len(items) THEN st
  ELSE prepareTreeList(prepareTree(st, items[k]), items, k + 1)

RECURSIVE findAndToggle(_, _, _)
RECURSIVE findAndToggleList(_, _, _, _)
\* findAndToggle: a shallow copy of every node on the way, the clicked one
\* with its two arrays exchanged
findAndToggle(st, r, uniqueId) ==
  LET children == childrenOf(st, r)
      hidden == hiddenOf(st, r)
      below == findAndToggleList(st, children.items, 1, uniqueId)
  IN IF fieldsOf(st, r).uniqueId = uniqueId
     THEN IF children.def THEN allocate(st, fieldsOf(st, r), NoArray, children)
          ELSE IF hidden.def THEN allocate(st, fieldsOf(st, r), hidden, NoArray)
          ELSE allocate(st, fieldsOf(st, r), children, hidden)
     ELSE IF children.def THEN allocate(below.st, fieldsOf(st, r), Array(below.refs), hidden)
     ELSE allocate(st, fieldsOf(st, r), children, hidden)

findAndToggleList(st, items, k, uniqueId) ==
  IF k > Len(items) THEN [st |-> st, refs |-> <<>>]
  ELSE LET a == findAndToggle(st, items[k], uniqueId)
           rest == findAndToggleList(a.st, items, k + 1, uniqueId)
       IN [st |-> rest.st, refs |-> <<a.ref>> \o rest.refs]

RECURSIVE reachable(_, _)
RECURSIVE reachableList(_, _, _)
\* the component's objects that can be reached from r, parents first
reachable(vw, r) ==
  IF r.space = "data" THEN <<>>
  ELSE <<r.at>> \o reachableList(vw, vw[r.at].children.items \o vw[r.at].hidden.items, 1)

reachableList(vw, items, k) ==
  IF k > Len(items) THEN <<>>
  ELSE reachable(vw, items[k]) \o reachableList(vw, items, k + 1)

\* garbage collection: the objects no longer reachable from the state of the
\* component are dropped and the others numbered in the order of reachable
collect(st, r) ==
  LET order == reachable(st.view, r)
      pos(old) == CHOOSE k \in 1..Len(order) : order[k] = old
      remap(x) == IF x.space = "view" THEN ViewRef(pos(x.at)) ELSE x
      remapArray(a) == [def |-> a.def, items |-> [k \in 1..Len(a.items) |-> remap(a.items[k])]]
  IN [view |-> [k \in 1..Len(order) |->
                  [st.view[order[k]] EXCEPT !.children = remapArray(@),
                                            !.hidden = remapArray(@)]],
      ref |-> remap(r)]

store == [data |-> nodes, view |-> view]

RECURSIVE visible(_, _)
\* d3.hierarchy(treeData, d => d.children): the nodes that are drawn
visible(st, r) ==
  {r} \cup UNION {visible(st, childrenOf(st, r).items[k]) :
                    k \in 1..Len(childrenOf(st, r).items)}

\* const hasChildren = !!children?.length || !!_children?.length
hasChildren(st, r) == Len(childrenOf(st, r).items) > 0 \/ Len(hiddenOf(st, r).items) > 0

\* the effect that runs when the component receives the tree
Mount ==
  /\ pc = "done"
  /\ treeData = DataRef(1)
  /\ LET rootNode == deepCopy(store, DataRef(1))
         prepared == prepareTree(rootNode.st, rootNode.ref)
         kept == collect(prepared, rootNode.ref)
     IN /\ nodes' = prepared.data
        /\ view' = kept.view
        /\ treeData' = kept.ref
  /\ UNCHANGED <<files, pc, i, allNodesByUniqueId, dfsVars, ccIn, ccOut, pyIn, pyOut>>

\* handleToggle for a click on the button of a drawn node
Toggle ==
  /\ pc = "done"
  /\ treeData.space = "view"
  /\ Len(childrenOf(store, treeData).items) > 0
  /\ \E r \in visible(store, treeData) :
        /\ hasChildren(store, r)
        /\ LET toggled == findAndToggle(store, treeData, fieldsOf(store, r).uniqueId)
               kept == collect(toggled.st, toggled.ref)
           IN /\ nodes' = toggled.st.data
              /\ view' = kept.view
              /\ treeData' = kept.ref
  /\ UNCHANGED <<files, pc, i, allNodesByUniqueId, dfsVars, ccIn, ccOut, pyIn, pyOut>>

\* the projects shown in the map: up to MaxView files, each with one of its
\* first two contents
InitMap ==
  /\ \E ps \in Orders : \E vs \in Variants(ps) :
        /\ Len(ps) <= MaxView
        /\ \A k \in 1..Len(ps) : vs[k] <= 2
        /\ files = Project(ps, vs)
  /\ InitEngine
  /\ ccIn = NoFunction /\ ccOut = Undef
  /\ pyIn = <<>> /\ pyOut = Undef
  /\ InitView

NextMap == Next \/ Mount \/ Toggle

SpecMap == InitMap /\ [][NextMap]_vars


\* ------------------------- analysis and cycle detection over file graphs
\* the first n files of the universe, without declarations or imports
GraphFiles(n) ==
  [k \in 1..n |-> [path |-> Universe[k],
                   content |-> IF IsJs(Universe[k]) THEN JsContent(<<>>) ELSE PyContent(<<>>)]]

RECURSIVE discoverAll(_, _, _)
\* pass 1 over all files
discoverAll(h, fs, k) ==
  IF k > Len(fs) THEN h ELSE discoverAll(discoverFile(h, fs[k]), fs, k + 1)

RECURSIVE linkGraph(_, _, _, _)
\* pass 2 when file a imports file b for every b in g[a]; e counts the
\* pairs (a, b) in the order the files are linked
linkGraph(h, fs, g, e) ==
  LET n == Len(fs)
      a == ((e - 1) \div n) + 1
      b == ((e - 1) % n) + 1
  IN IF e > n * n THEN h
     ELSE linkGraph(IF b \in g[a]
                    THEN pushEdge(h, mapGet(h.map, FilePrefix \o fs[a].path),
                                  mapGet(h.map, FilePrefix \o fs[b].path))
                    ELSE h,
                    fs, g, e + 1)

\* the tree and the map when the loop over fileNodes starts, for the file
\* graph g
GraphHeap(fs, g) ==
  LET h == linkGraph(discoverAll(EmptyHeap, fs, 1), fs, g, 1)
      ns == dedupEdges(h.nodes, h.map)
  IN [h EXCEPT !.nodes = analyzeNodes(ns, h.map)]

InitCycles ==
  /\ \E n \in 1..Min(MaxFiles, Len(Universe)) :
        \E g \in [1..n -> {S \in SUBSET (1..n) : Cardinality(S) <= MaxOut}] :
           /\ files = GraphFiles(n)
           /\ nodes = GraphHeap(GraphFiles(n), g).nodes
           /\ allNodesByUniqueId = GraphHeap(GraphFiles(n), g).map
  /\ fileNodes = fileNodesOf(nodes, allNodesByUniqueId)
  /\ adj = adjOf(nodes, allNodesByUniqueId)
  /\ pc = "cycles"
  /\ i = 1
  /\ visited = {}
  /\ recursionStack = {}
  /\ cycles = {}
  /\ callStack = <<>>
  /\ returning = FALSE
  /\ calls = <<>>
  /\ ccIn = NoFunction /\ ccOut = Undef
  /\ pyIn = <<>> /\ pyOut = Undef
  /\ InitView

\* the loop over fileNodes and the calls of detectCycleUtil it makes
Detect == DetectRoot \/ DfsStep \/ DfsUnwind

NextCycles == Detect \/ Finish

SpecCycles == InitCycles /\ [][NextCycles]_vars

\* the loop is synchronous code: it keeps running until it is through
FairCycles == SpecCycles /\ WF_vars(Detect)

\* ------------------------------- file graphs with ordered adjacency lists
\* the lists of up to MaxOut distinct files out of n, in any order
AdjLists(n) ==
  UNION {{q \in [1..m -> 1..n] : \A a, b \in 1..m : a # b => q[a] # q[b]} :
         m \in 0..Min(MaxOut, n)}

RECURSIVE linkLists(_, _, _, _, _)
\* pass 2 when file a imports the files of g[a], in the order of the list
linkLists(h, fs, g, a, k) ==
  IF a > Len(fs) THEN h
  ELSE IF k > Len(g[a]) THEN linkLists(h, fs, g, a + 1, 1)
  ELSE linkLists(pushEdge(h, mapGet(h.map, FilePrefix \o fs[a].path),
                          mapGet(h.map, FilePrefix \o fs[g[a][k]].path)),
                 fs, g, a, k + 1)

\* the tree and the map when the loop over fileNodes starts
ListHeap(fs, g) ==
  LET h == linkLists(discoverAll(EmptyHeap, fs, 1), fs, g, 1, 1)
      ns == dedupEdges(h.nodes, h.map)
  IN [h EXCEPT !.nodes = analyzeNodes(ns, h.map)]

RECURSIVE TotalLen(_, _)
TotalLen(g, k) == IF k = 0 THEN 0 ELSE Len(g[k]) + TotalLen(g, k - 1)

InitOrders ==
  /\ \E n \in 1..Min(MaxFiles, Len(Universe)) :
        \E g \in [1..n -> AdjLists(n)] :
           /\ TotalLen(g, n) <= MaxEdges
           /\ files = GraphFiles(n)
           /\ nodes = ListHeap(GraphFiles(n), g).nodes
           /\ allNodesByUniqueId = ListHeap(GraphFiles(n), g).map
  /\ fileNodes = fileNodesOf(nodes, allNodesByUniqueId)
  /\ adj = adjOf(nodes, allNodesByUniqueId)
  /\ pc = "cycles"
  /\ i = 1
  /\ visited = {}
  /\ recursionStack = {}
  /\ cycles = {}
  /\ callStack = <<>>
  /\ returning = FALSE
  /\ calls = <<>>
  /\ ccIn = NoFunction /\ ccOut = Undef
  /\ pyIn = <<>> /\ pyOut = Undef
  /\ InitView

SpecOrders == InitOrders /\ [][NextCycles]_vars

\* ------------------------------------ the exact complexity, on its own
InitCC ==
  /\ files = <<>>
  /\ InitEngine
  /\ \/ \E g \in Gen(MaxDepth) : \E rest \in {<<>>} \cup {<<g1>> : g1 \in Gen(1)} :
           ccIn = CcInput(<<g>> \o rest)
     \/ ccIn = CcInput(BodyIfFor.kids)
  /\ ccOut = Undef
  /\ pyIn = <<>> /\ pyOut = Undef
  /\ InitView

ComputeCC ==
  /\ ccOut = Undef
  /\ ccIn # NoFunction
  /\ ccOut' = calculateCognitiveComplexity(ccIn)
  /\ UNCHANGED <<engineVars, ccIn, pyIn, pyOut, viewVars>>

SpecCC == InitCC /\ [][ComputeCC]_vars

\* ------------------------------ the indentation-based complexity, on its own
InitPy ==
  /\ files = <<>>
  /\ InitEngine
  /\ ccIn = NoFunction /\ ccOut = Undef
  /\ \/ \E n \in 0..MaxPyLines : \E b \in [1..n -> PyLines] : pyIn = PyInput(b)
     \/ pyIn = PyScenario
  /\ pyOut = Undef
  /\ InitView

ComputePy ==
  /\ pyOut = Undef
  /\ pyIn # <<>>
  /\ pyOut' = calculatePythonCognitiveComplexity(pyIn, <<"g">>)
  /\ UNCHANGED <<engineVars, ccIn, ccOut, pyIn, viewVars>>

SpecPy == InitPy /\ [][ComputePy]_vars

\* ------------------------------------------------------------ properties
Heap == 1..Len(nodes)

Analyzed == pc \in {"cycles", "done"}

Linked == pc \in {"cleanup", "analyze", "cycles", "done"}

FileNodeIdx == {k \in Heap : nodes[k].type = "file"}

NodeOf(id) == CHOOSE k \in Heap : nodes[k].uniqueId = id

HasNode(id) == \E k \in Heap : nodes[k].uniqueId = id

HasContent(p, body) ==
  \E k \in 1..Len(files) : files[k].path = p /\ files[k].content.body = body

\* a file-to-file edge from file node a to file node b
FileEdge(a, b) == nodes[b].uniqueId \in Range(nodes[a].dependencies)

Succ(a) == {b \in FileNodeIdx : FileEdge(a, b)}

RECURSIVE Closure(_)
Closure(S) ==
  LET T == S \cup UNION {Succ(a) : a \in S}
  IN IF T = S THEN S ELSE Closure(T)

\* the file nodes reachable from a along at least one file-to-file edge
ReachableFrom(a) == Closure(Succ(a))

OnCycle(a) == a \in ReachableFrom(a)

Count(s, x) == Cardinality({k \in 1..Len(s) : s[k] = x})

\* C1: no two node objects share an identifier, in the identifier map and in
\* the tree: every unique id belongs to one node, every key of the map
\* occurs once, and every node is the child of one parent, once.
C1_UniqueSymbols ==
  /\ \A a, b \in Heap : a # b => nodes[a].uniqueId # nodes[b].uniqueId
  /\ \A a, b \in 1..Len(allNodesByUniqueId) :
        a # b => allNodesByUniqueId[a].key # allNodesByUniqueId[b].key
  /\ \A a \in Heap : \A x, y \in 1..Len(nodes[a].children) :
        x # y => nodes[a].children[x] # nodes[a].children[y]
  /\ \A a, b \in Heap :
        a # b => Range(nodes[a].children) \cap Range(nodes[b].children) = {}

\* a run in which a name was declared twice (var v; var v), declared and
\* then exported (function g; export {g}), wrapped in an export (export
\* function f) and matched by two patterns (class g / def g)
C1_Witness ==
  /\ pc = "done"
  /\ HasContent(P_A, JsLibrary) /\ HasContent(P_B, JsNamed(P_B))
  /\ \E k \in 1..Len(files) : files[k].content.lines = PyModule
  /\ HasNode(P_A \o <<":", "v">>) /\ HasNode(P_A \o <<":", "f">>)
  /\ HasNode(P_B \o <<":", "g">>) /\ HasNode(P_X \o <<":", "g">>)

\* C2: edges are bidirectional after every step: B's id is in
\* A.dependencies exactly when A's id is in B.dependents.
C2_EdgesBidirectional ==
  \A a, b \in Heap :
     (nodes[b].uniqueId \in Range(nodes[a].dependencies))
       <=> (nodes[a].uniqueId \in Range(nodes[b].dependents))

\* a returned tree with a file-to-file edge and a file-to-symbol edge
C2_Witness ==
  /\ pc = "done"
  /\ \E a \in FileNodeIdx :
        /\ \E b \in FileNodeIdx : a # b /\ FileEdge(a, b)
        /\ \E b \in Heap : nodes[b].type = "function" /\ FileEdge(a, b)

\* some node of another file is among the dependents of node n
UsedOutside(n) ==
  \E m \in Heap : nodes[m].uniqueId \in Range(nodes[n].dependents)
                  /\ nodes[m].path # nodes[n].path

\* C3: after analysis a node is marked unused exactly when it is exported
\* and none of its dependents is a node of another file.
C3_UnusedExports ==
  Analyzed => \A n \in Heap : nodes[n].isUnused <=> (nodes[n].isExported /\ ~UsedOutside(n))

\* an exported symbol used only by its own file (marked), an exported symbol
\* used by another file (not marked) and a used symbol that is not exported
C3_Witness ==
  /\ pc = "done"
  /\ \E n \in Heap : nodes[n].isExported /\ nodes[n].dependents # <<>> /\ nodes[n].isUnused
  /\ \E n \in Heap : nodes[n].isExported /\ nodes[n].dependents # <<>> /\ ~nodes[n].isUnused
  /\ \E n \in Heap : ~nodes[n].isExported /\ nodes[n].type = "file"
                     /\ nodes[n].dependents = <<>> /\ ~nodes[n].isUnused

FileIdsIn(s) == {id \in Range(s) : IsFileId(id)}

\* C4: a file node's instability is Ce / (Ca + Ce) over the file-level
\* identifiers of its edge lists, lies in [0, 1], is 0 without file-level
\* edges, and no other node has an instability.
C4_Instability ==
  Analyzed =>
    \A n \in Heap :
       LET Ca == Cardinality(FileIdsIn(nodes[n].dependents))
           Ce == Cardinality(FileIdsIn(nodes[n].dependencies))
           num == nodes[n].instability[1]
           den == nodes[n].instability[2]
       IN IF nodes[n].type = "file"
          THEN /\ den > 0 /\ 0 <= num /\ num <= den
               /\ num * (Ca + Ce) = Ce * den
               /\ (Ca + Ce = 0 => num = 0)
          ELSE nodes[n].instability = <<Undef, 1>>

\* a returned tree with a file that has both kinds of file-level edges, a
\* file that has none and a file that only depends on others
C4_Witness ==
  /\ pc = "done"
  /\ \E n \in FileNodeIdx : 0 < nodes[n].instability[1]
                            /\ nodes[n].instability[1] < nodes[n].instability[2]
  /\ \E n \in FileNodeIdx : nodes[n].instability = <<1, 1>>

\* C5: every file on a directed cycle of file-to-file edges is marked
\* cyclic, and a file without any file-to-file edge is not.
C5_CyclesMarked ==
  pc = "done" =>
    \A n \in FileNodeIdx :
       /\ OnCycle(n) => nodes[n].isCyclic
       /\ (FileIdsIn(nodes[n].dependencies) = {} /\ FileIdsIn(nodes[n].dependents) = {})
            => ~nodes[n].isCyclic

\* p imports q and q imports p, both marked; a third file without edges is
\* not
C5_Witness ==
  /\ pc = "done"
  /\ \E p, q, r \in FileNodeIdx :
        /\ p # q /\ FileEdge(p, q) /\ FileEdge(q, p)
        /\ nodes[p].isCyclic /\ nodes[q].isCyclic
        /\ r # p /\ r # q /\ ~nodes[r].isCyclic
        /\ FileIdsIn(nodes[r].dependencies) = {} /\ FileIdsIn(nodes[r].dependents) = {}

\* C6: every file marked cyclic is itself part of a circular dependency
\* ring: it can reach itself again along file-to-file edges.
C6_MarkedFilesAreOnARing ==
  pc = "done" => \A n \in FileNodeIdx : nodes[n].isCyclic => OnCycle(n)

NoRepeatedCalls ==
  /\ \A x, y \in 1..Len(calls) : x # y => calls[x] # calls[y]
  /\ Range(calls) \subseteq visited

\* C7: no file node is handed to detectCycleUtil twice, and on every file
\* graph the detection comes to its end: the loop over fileNodes is through
\* and no call of detectCycleUtil is open.
C7_DetectionTerminates ==
  [](NoRepeatedCalls) /\ <>(pc = "cycles" /\ callStack = <<>> /\ Unvisited = {})

\* a finished detection over three files, with a self-loop and a two-file
\* cycle, in which every file was traversed
C7_Witness ==
  /\ pc = "done"
  /\ Len(calls) >= 3
  /\ Range(calls) = {nodes[n].uniqueId : n \in FileNodeIdx}
  /\ \E n \in FileNodeIdx : FileEdge(n, n)
  /\ \E p, q \in FileNodeIdx : p # q /\ FileEdge(p, q) /\ FileEdge(q, p)

RECURSIVE ClaimedScore(_, _)
RECURSIVE ClaimedScoreKids(_, _, _)
\* the score of a tree when every if / for / while / do-while / ternary /
\* switch adds 1 plus the number of nesting constructs around it
ClaimedScore(node, depth) ==
  (IF node.type \in ScoredTypes THEN 1 + depth ELSE 0)
  + ClaimedScoreKids(node.kids, 1, IF node.type \in LeaveTypes THEN depth + 1 ELSE depth)

ClaimedScoreKids(ks, k, depth) ==
  IF k > Len(ks) THEN 0
  ELSE ClaimedScore(ks[k], depth) + ClaimedScoreKids(ks, k + 1, depth)

RECURSIVE TypesOf(_)
TypesOf(node) == {node.type} \cup UNION {TypesOf(node.kids[k]) : k \in 1..Len(node.kids)}

\* the function body holds nothing that is scored by another rule
OnlyNestingConstructs(node) ==
  TypesOf(node) \cap {"CatchClause", "CallExpression", "LogicalExpression"} = {}

\* C8: the exact complexity of a function whose body holds only if / for /
\* while / do-while / ternary / switch is the sum of 1 + enclosing nesting
\* constructs over them; function f(){ if (x) { for(;;){} } } scores 3.
C8_ExactNestingScore ==
  ccOut # Undef =>
    /\ OnlyNestingConstructs(ccIn.body) => ccOut = ClaimedScore(ccIn.body, 0)
    /\ ccIn = CcInput(BodyIfFor.kids) => ccOut = 3

ClaimedImportedName(specifier) ==
  IF specifier.type = "ImportDefaultSpecifier" THEN <<"d", "e", "f", "a", "u", "l", "t">>
  ELSE IF specifier.type = "ImportSpecifier" THEN specifier.imported
  ELSE <<"*">>

\* the (importing file, target path, specifier) triples of used bindings
UsedImports ==
  {t \in UNION {UNION {{[file |-> f, target |-> resolveImportPath(st.source, f.path, filePaths),
                          specifier |-> sp] : sp \in Range(st.specifiers)}
                       : st \in {s \in Range(f.content.body) : s.t = "ImportDeclaration"}}
                : f \in {g \in Range(filteredFiles) : IsJs(g.path) /\ g.content.parses}} :
     /\ t.target # <<>>
     /\ t.specifier.local \in Range(AllIdents(t.file.content.body, 1))}

\* C9: once the files are linked, the file node of an importer that uses an
\* imported binding has exactly one dependency A:<importedName> when that
\* symbol exists (and is among the symbol's dependents), otherwise an edge to
\* A's file node; default imports target A:default.  With a.ts exporting f
\* and b.ts importing and calling it, file:b.ts -> a.ts:f and f is not
\* marked unused.
C9_SymbolLinking ==
  Linked =>
    /\ \A t \in UsedImports :
          LET B == FilePrefix \o t.file.path
              sym == t.target \o <<":">> \o ClaimedImportedName(t.specifier)
              A == FilePrefix \o t.target
          IN HasNode(B) =>
               IF HasNode(sym)
               THEN /\ Count(nodes[NodeOf(B)].dependencies, sym) = 1
                    /\ B \in Range(nodes[NodeOf(sym)].dependents)
               ELSE HasNode(A) => A \in Range(nodes[NodeOf(B)].dependencies)
    /\ (HasContent(P_A, JsLibrary) /\ HasContent(P_B, JsNamed(P_B))) =>
          /\ (P_A \o <<":", "f">>) \in Range(nodes[NodeOf(FilePrefix \o P_B)].dependencies)
          /\ ~nodes[NodeOf(P_A \o <<":", "f">>)].isUnused

\* the returned tree of a.ts (library), b.ts (import {f}; f()) and a file
\* with a default import that found its symbol and a namespace import that
\* fell back to the file
C9_Witness ==
  /\ pc = "done"
  /\ HasContent(P_A, JsLibrary) /\ HasContent(P_B, JsNamed(P_B))
  /\ \E t \in UsedImports : t.specifier.type = "ImportDefaultSpecifier"
        /\ HasNode(t.target \o <<":">> \o NameDefault)
  /\ \E t \in UsedImports : t.specifier.type = "ImportNamespaceSpecifier"
        /\ HasNode(FilePrefix \o t.target)

RECURSIVE SumUpTo(_, _)
SumUpTo(F, n) == IF n = 0 THEN 0 ELSE F[n] + SumUpTo(F, n - 1)

PyScored(line) == ~IsBlank(line) /\ ~IsComment(line)

\* the level opened by line a of body is still open at line b: no scored
\* line after a, up to b, is indented at or below a
PyOpenAt(body, a, b) ==
  /\ a < b /\ PyScored(body[a]) /\ body[a].head \in nestingKeywords
  /\ \A m \in (a + 1)..b : PyScored(body[m]) => body[m].indent > body[a].indent

ExpectedPy(body, functionName) ==
  SumUpTo([b \in 1..Len(body) |->
             IF ~PyScored(body[b]) THEN 0
             ELSE (IF body[b].head \in nestingKeywords
                   THEN 1 + Cardinality({a \in 1..Len(body) : PyOpenAt(body, a, b)})
                   ELSE IF body[b].head \in simpleKeywords THEN 1 ELSE 0)
                  + body[b].ops
                  + (IF functionName \in body[b].words THEN 1 ELSE 0)],
          Len(body))

\* C10: in the body of a Python function a line starting with a nesting
\* keyword adds 1 + the number of open levels and opens a level; a level
\* stays open under deeper lines and is closed by a line at or below its
\* indentation.  The scenario function g scores 3.
C10_IndentationComplexity ==
  pyOut # Undef =>
    /\ pyOut = ExpectedPy(PyFunctionBody(pyIn, 1), <<"g">>)
    /\ pyIn = PyScenario => pyOut = 3

\* a scored body in which a nesting line sits under two open levels and a
\* later nesting line closed a level
C10_Witness ==
  /\ pyOut # Undef
  /\ LET body == PyFunctionBody(pyIn, 1)
     IN \E a, b, c, d \in 1..Len(body) :
           /\ PyOpenAt(body, a, c) /\ PyOpenAt(body, b, c) /\ a # b
           /\ body[c].head \in nestingKeywords
           /\ c < d /\ body[d].head \in nestingKeywords /\ ~PyOpenAt(body, b, d)

\* ---------------------------------------------------------------- C11
\* the text between the opening brace of the function matched on line k and
\* its balanced closing brace
OwnBody(lines, k) ==
  LET content == Flatten(lines, 1)
      open == FirstOf({b \in (LineOffset(lines, k) + 1)..Len(content) : content[b] = K("{")})
  IN SubSeq(content, open + 1, closingBrace(content, open + 1, 1) - 1)

FunctionLines(lines) == {k \in 1..Len(lines) : lines[k].head \in {"cppfn", "objcfn"}}

\* C11: the complexity recorded for a function of a brace-language file is
\* the brace-based score of the function's own body, the text between the
\* opening brace of the matched function and its balanced closing brace;
\* for m.c = int h(int n){ if(n>0){ return h(n-1); } return 0; } the symbol
\* m.c:h gets 2.
C11_OwnBodyComplexity ==
  pc # "discover" =>
    \A f \in 1..Len(filteredFiles) :
      LET file == filteredFiles[f]
          lines == file.content.lines
      IN /\ \A k \in FunctionLines(lines) :
              LET id == file.path \o <<":">> \o lines[k].arg
              IN /\ HasNode(id)
                 /\ nodes[NodeOf(id)].cognitiveComplexity =
                      calculateBraceBasedCognitiveComplexity(OwnBody(lines, k), lines[k].arg)
         /\ (file.path = P_M /\ lines = CScenario) =>
              nodes[NodeOf(P_M \o <<":", "h">>)].cognitiveComplexity = 2

\* ---------------------------------------------------------------- C12
\* what pass 1 records for the symbols of the file at path p in heap h (a
\* set: the final sort reorders the children)
SymbolsOf(h, p) ==
  LET fileNode == mapGet(h.map, FilePrefix \o p)
  IN IF fileNode = 0 THEN {}
     ELSE {LET n == h.nodes[h.nodes[fileNode].children[c]]
           IN [uniqueId |-> n.uniqueId, name |-> n.name, type |-> n.type, path |-> n.path,
                 isExported |-> n.isExported, loc |-> n.loc,
                 cognitiveComplexity |-> n.cognitiveComplexity] :
           c \in 1..Len(h.nodes[fileNode].children)}

Unparsable(file) == IsJs(file.path) /\ ~file.content.parses

\* the input files without the ones that cannot be parsed
ParsableFiles == FilterSeq(filteredFiles, {f \in Range(filteredFiles) : ~Unparsable(f)})

\* C12: a tree-based file whose content cannot be parsed keeps its file node
\* and contributes no symbol node, no import and no outgoing edge, in every
\* state after pass 1 up to and including the returned tree; the symbols of
\* every other file are the ones extracted when the failing file is absent.
C12_ParseFailureIsolated ==
  pc # "discover" =>
    \A f \in 1..Len(filteredFiles) :
      LET file == filteredFiles[f]
          id == FilePrefix \o file.path
      IN Unparsable(file) =>
           /\ HasNode(id)
           /\ nodes[NodeOf(id)].type = "file"
           /\ nodes[NodeOf(id)].children = <<>>
           /\ nodes[NodeOf(id)].imports = <<>>
           /\ nodes[NodeOf(id)].dependencies = <<>>
           /\ \A k \in Heap : nodes[k].path = file.path => k = NodeOf(id)
           /\ \A g \in 1..Len(filteredFiles) :
                g # f =>
                  SymbolsOf(heap, filteredFiles[g].path) =
                    SymbolsOf(discoverAll(EmptyHeap, ParsableFiles, 1), filteredFiles[g].path)

\* the returned tree of a project with an unparsable file and a file that
\* has symbols
C12_Witness ==
  /\ pc = "done"
  /\ \E f, g \in 1..Len(filteredFiles) :
        /\ Unparsable(filteredFiles[f])
        /\ SymbolsOf(heap, filteredFiles[g].path) # {}

\* ---------------------------------------------------------------- C13
\* the rule set the claim assigns to an extension of the pattern family
ClaimedConfig(ext) ==
  CASE ext \in {<<".", "c">>, <<".", "h">>, <<".", "c", "p", "p">>} -> cppConfig
    [] ext \in {<<".", "m">>, <<".", "m", "m">>, <<".", "o", "b", "j", "c">>} -> objcConfig
    [] OTHER -> pyConfig

\* the heap after the one extractor of the file's family ran on the file alone
ExtractedAlone(file) ==
  LET w == walkPath(EmptyHeap, NonEmptyParts(file.path), 1, 1)
  IN IF IsJs(file.path) THEN parseFileWithAcorn(w.h, file, w.node)
     ELSE parseFileWithRegex(w.h, file.content.lines, ClaimedConfig(ExtensionOf(file.path)),
                             w.node, file.path)

Unsupported(file) == ~IsSupported(file.path)

\* every identifier of the heap: the nodes' own and the ones in edge lists
AllIds ==
  UNION {{nodes[k].uniqueId} \cup Range(nodes[k].dependencies) \cup Range(nodes[k].dependents) :
         k \in Heap}

\* C13: a file with an unsupported extension leaves no trace (no node of any
\* kind carries its path, no identifier of the heap is its file identifier
\* or one of its symbols, so it is no import's target); after pass 1 every
\* supported input file has exactly one file node, whose symbols and imports
\* are the ones of the single extractor of its extension (c and h use the
\* cpp rule set, m and mm the objc rule set).
C13_UnsupportedExcluded ==
  /\ \A f \in 1..Len(files) :
       Unsupported(files[f]) =>
         /\ \A k \in Heap : nodes[k].path # files[f].path
         /\ \A id \in AllIds :
              /\ id # FilePrefix \o files[f].path
              /\ ~StartsWith(id, files[f].path \o <<":">>)
         /\ ~mapHas(allNodesByUniqueId, FilePrefix \o files[f].path)
  /\ pc # "discover" =>
       \A f \in 1..Len(files) :
         ~Unsupported(files[f]) =>
           LET id == FilePrefix \o files[f].path
               alone == ExtractedAlone(files[f])
           IN /\ Cardinality({k \in Heap : nodes[k].uniqueId = id}) = 1
              /\ nodes[NodeOf(id)].type = "file"
              /\ mapGet(allNodesByUniqueId, id) = NodeOf(id)
              /\ SymbolsOf(heap, files[f].path) = SymbolsOf(alone, files[f].path)
              /\ nodes[NodeOf(id)].imports =
                   alone.nodes[mapGet(alone.map, id)].imports

\* a returned tree of a project with an unsupported file next to a file of
\* an aliased extension that has symbols and an import
C13_Witness ==
  /\ pc = "done"
  /\ \E f, g \in 1..Len(files) :
        /\ Unsupported(files[f])
        /\ ExtensionOf(files[g].path) \in {<<".", "c">>, <<".", "h">>, <<".", "m">>}
        /\ SymbolsOf(heap, files[g].path) # {}
        /\ nodes[NodeOf(FilePrefix \o files[g].path)].imports # <<>>

\* ---------------------------------------------------------------- C14
\* an import string of a file corresponds to a known file: a relative
\* specifier names it literally, by an implicit extension or as a directory;
\* a bare specifier or a raw import string of a pattern-analysed file occurs
\* in its path
Corresponds(file, importStr) ==
  IF IsJs(file.path) /\ StartsWith(importStr, <<".">>)
  THEN LET resolved == UrlResolve(importStr, file.path)
       IN \E p \in Range(filePaths) :
             \/ p = resolved
             \/ StartsWith(p, resolved \o <<".">>)
             \/ StartsWith(p, resolved \o <<"/">>)
  ELSE LET key == IF IsJs(file.path) THEN Split(importStr, "/")[1] ELSE importStr
       IN \E p \in Range(filePaths) : Includes(p, key)

\* the import strings of a file
ImportStrings(file) ==
  IF IsJs(file.path)
  THEN {file.content.body[k].source :
          k \in {x \in 1..Len(file.content.body) : file.content.body[x].t = "ImportDeclaration"}}
  ELSE Range(nodes[NodeOf(FilePrefix \o file.path)].imports)

\* C14: an import that corresponds to no known file adds no edge: a file none
\* of whose imports corresponds to a known file has, once pass 2 is through,
\* an empty dependencies list, and its identifier is in no dependents list.
C14_UnresolvedImportsNoEdge ==
  Linked =>
    \A f \in 1..Len(filteredFiles) :
      LET file == filteredFiles[f]
          id == FilePrefix \o file.path
      IN (~Unparsable(file) /\ \A s \in ImportStrings(file) : ~Corresponds(file, s)) =>
           /\ nodes[NodeOf(id)].dependencies = <<>>
           /\ \A k \in Heap : id \notin Range(nodes[k].dependents)

\* ---------------------------------------------------------------- C15
RECURSIVE linkAll(_, _, _)
\* pass 2 over all files
linkAll(h, fs, k) ==
  IF k > Len(fs) THEN h
  ELSE linkAll(linkFile(h, fs[k], [x \in 1..Len(fs) |-> fs[x].path]), fs, k + 1)

\* the heap as the two passes leave it, before the cleanup
BeforeCleanup == linkAll(discoverAll(EmptyHeap, filteredFiles, 1), filteredFiles, 1)

NoDuplicates(s) == \A a, b \in 1..Len(s) : s[a] = s[b] => a = b

\* C15: from the start of the analysis pass on, the returned tree included,
\* no node of the identifier map has an identifier twice in its dependencies
\* or in its dependents; when the analysis pass starts each list holds the
\* same set of identifiers as before the cleanup.
C15_Deduplicated ==
  pc \in {"analyze", "cycles", "done"} =>
    \A k \in Range(mapValues(allNodesByUniqueId)) :
      /\ NoDuplicates(nodes[k].dependencies)
      /\ NoDuplicates(nodes[k].dependents)
      /\ pc = "analyze" =>
           /\ Range(nodes[k].dependencies) = Range(BeforeCleanup.nodes[k].dependencies)
           /\ Range(nodes[k].dependents) = Range(BeforeCleanup.nodes[k].dependents)

\* the analysis pass starts on lists from which the cleanup removed a
\* repeated dependency and a repeated dependent
C15_Witness ==
  /\ pc = "analyze"
  /\ \E a, b \in Range(mapValues(allNodesByUniqueId)) :
        /\ ~NoDuplicates(BeforeCleanup.nodes[a].dependencies)
        /\ ~NoDuplicates(BeforeCleanup.nodes[b].dependents)
        /\ nodes[a].dependencies # <<>>

\* ---------------------------------------------------------------- C16
\* the input files in the order of the universe instead of the input order
InUniverseOrder(fs) ==
  LET present == FilterSeq(Universe, {fs[k].path : k \in 1..Len(fs)})
  IN [k \in 1..Len(present) |-> CHOOSE f \in Range(fs) : f.path = present[k]]

ChildNames(ns, k) == [c \in 1..Len(ns[k].children) |-> ns[ns[k].children[c]].name]

IsDirectory(k) == nodes[k].type = "directory"

RECURSIVE Callees(_)
\* the names called in a function body
Callees(node) ==
  (IF node.type = "CallExpression" /\ node.op # <<>> THEN {node.op} ELSE {})
    \cup UNION {Callees(node.kids[k]) : k \in 1..Len(node.kids)}

RECURSIVE Mentions(_)
\* the names a statement refers to: its Identifier expressions and the
\* callees in the bodies it contains
Mentions(s) ==
  Range(s.idents) \cup Callees(s.body)
    \cup UNION {Callees(s.declarations[k].body) : k \in 1..Len(s.declarations)}
    \cup UNION {Callees(s.methods[k].body) : k \in 1..Len(s.methods)}
    \cup UNION {Mentions(s.decl[k]) : k \in 1..Len(s.decl)}
    \cup UNION {Mentions(s.inner[k]) : k \in 1..Len(s.inner)}

\* the names a top-level statement declares
Declares(s) ==
  ({s.id} \ {<<>>}) \cup {s.declarations[k].id : k \in 1..Len(s.declarations)}
    \cup UNION {({s.decl[k].id} \ {<<>>})
                  \cup {s.decl[k].declarations[d].id : d \in 1..Len(s.decl[k].declarations)} :
                k \in 1..Len(s.decl)}

IsDeclaration(s) ==
  \/ s.t \in {"FunctionDeclaration", "ClassDeclaration", "VariableDeclaration",
              "ExportDefaultDeclaration"}
  \/ s.t = "ExportNamedDeclaration" /\ s.decl # <<>>

\* two top-level declarations neither of which refers to a name of the other
Unrelated(a, b) ==
  /\ IsDeclaration(a) /\ IsDeclaration(b)
  /\ Declares(a) \cap Mentions(b) = {}
  /\ Declares(b) \cap Mentions(a) = {}

Swap(body, a, b) ==
  [k \in 1..Len(body) |-> IF k = a THEN body[b] ELSE IF k = b THEN body[a] ELSE body[k]]

RECURSIVE RenameAst(_, _, _)
RenameAst(node, from, to) ==
  [node EXCEPT !.op = IF node.type = "CallExpression" /\ @ = from THEN to ELSE @,
               !.kids = [k \in 1..Len(node.kids) |-> RenameAst(node.kids[k], from, to)]]

RenameName(n, from, to) == IF n = from THEN to ELSE n

RECURSIVE RenameStmt(_, _, _)
\* the statement with every occurrence of the identifier from replaced by to
RenameStmt(s, from, to) ==
  [s EXCEPT
     !.id = RenameName(@, from, to),
     !.body = RenameAst(@, from, to),
     !.idents = [k \in 1..Len(@) |-> RenameName(@[k], from, to)],
     !.locals = [k \in 1..Len(@) |-> RenameName(@[k], from, to)],
     !.specifiers = [k \in 1..Len(@) |-> [@[k] EXCEPT !.local = RenameName(@, from, to)]],
     !.declarations = [k \in 1..Len(@) |->
                         [@[k] EXCEPT !.id = RenameName(@, from, to),
                                      !.body = RenameAst(@, from, to)]],
     !.methods = [k \in 1..Len(@) |-> [@[k] EXCEPT !.body = RenameAst(@, from, to)]],
     !.decl = [k \in 1..Len(@) |-> RenameStmt(@[k], from, to)],
     !.inner = [k \in 1..Len(@) |-> RenameStmt(@[k], from, to)]]

FreshName == <<"z", "z">>

NamesOf(body) ==
  UNION {Declares(body[k]) \cup Mentions(body[k])
           \cup {body[k].specifiers[x].local : x \in 1..Len(body[k].specifiers)}
           \cup UNION {Declares(body[k].inner[x]) : x \in 1..Len(body[k].inner)} :
         k \in 1..Len(body)}

\* the files that differ from file only by a swap of two unrelated top-level
\* declarations or by renaming one identifier to a name not used in the file
Equivalents(file) ==
  LET body == file.content.body
  IN {[file EXCEPT !.content.body = Swap(body, a, b)] :
        <<a, b>> \in {p \in (1..Len(body)) \X (1..Len(body)) :
                        p[1] < p[2] /\ Unrelated(body[p[1]], body[p[2]])}}
     \cup {[file EXCEPT !.content.body = [k \in 1..Len(body) |-> RenameStmt(body[k], n, FreshName)]] :
             n \in NamesOf(body)}

\* C17: the complexity recorded for a function of a tree-based file is the
\* same in a run on a file that differs only by the order of unrelated
\* top-level declarations or by the name of an unrelated identifier: a
\* symbol identifier recorded with a complexity in both runs has the same
\* complexity in both.
C17_ComplexityInvariant ==
  pc # "discover" =>
    \A f \in 1..Len(filteredFiles) :
      LET file == filteredFiles[f]
      IN (IsJs(file.path) /\ file.content.parses) =>
           \A other \in Equivalents(file) :
             \A s \in SymbolsOf(heap, file.path) :
               \A t \in SymbolsOf(ExtractedAlone(other), file.path) :
                 (s.uniqueId = t.uniqueId /\ s.type = t.type
                    /\ s.cognitiveComplexity # Undef /\ t.cognitiveComplexity # Undef)
                   => s.cognitiveComplexity = t.cognitiveComplexity

\* ---------------------------------------------------------------- C18
DefaultExports(body) == {k \in 1..Len(body) : body[k].t = "ExportDefaultDeclaration"}

\* C18: after pass 1 a parsed tree-based file with a default-export wrapper
\* has the symbol <path>:default, exported, whatever the wrapper wraps; its
\* display name is the wrapped declaration's own name, or the base name of
\* the file when the declaration is anonymous.
C18_DefaultExportSymbol ==
  pc # "discover" =>
    \A f \in 1..Len(filteredFiles) :
      LET file == filteredFiles[f]
          id == file.path \o <<":">> \o NameDefault
      IN (IsJs(file.path) /\ file.content.parses) =>
           \A k \in DefaultExports(file.content.body) :
             LET wrapped == file.content.body[k].decl[1]
             IN /\ HasNode(id)
                /\ nodes[NodeOf(id)].isExported
                /\ nodes[NodeOf(id)].name =
                     IF wrapped.id # <<>> THEN wrapped.id ELSE BaseName(file.path)

\* ---------------------------------------------------------------- C19
EdgeIds(k) == Range(nodes[k].dependencies) \cup Range(nodes[k].dependents)

\* C19: in every state of a run, the returned tree included, every
\* identifier in a dependencies or dependents list is a key of the
\* identifier map and the node stored under it carries that identifier; no
\* step removes a key from the map.
C19_NoDanglingEdges ==
  /\ [](\A k \in Heap : \A id \in EdgeIds(k) :
          /\ mapHas(allNodesByUniqueId, id)
          /\ nodes[mapGet(allNodesByUniqueId, id)].uniqueId = id)
  /\ [][\A x \in 1..Len(allNodesByUniqueId) :
          mapHas(allNodesByUniqueId', allNodesByUniqueId[x].key)]_vars

\* a returned tree in which a file depends on a symbol and on a file, one of
\* its imports being a namespace import, whose name is no symbol
C19_Witness ==
  /\ pc = "done"
  /\ \E k \in FileNodeIdx :
        /\ \E id \in Range(nodes[k].dependencies) : IsFileId(id)
        /\ \E id \in Range(nodes[k].dependencies) : ~IsFileId(id)
        /\ HasContent(nodes[k].path, JsNamespace(nodes[k].path))

\* ---------------------------------------------------------------- C20
ViewRefs == UNION {Range(view[k].children.items) \cup Range(view[k].hidden.items) :
                   k \in 1..Len(view)}

\* C20: once parseProject has returned, no step of the map component (the
\* initial collapsing of the files, a collapse or expand toggle) changes an
\* object of the returned tree or the identifier map, and after the initial
\* step the component's tree consists of its own objects only.
C20_TreeIsSnapshot ==
  /\ [][pc = "done" => (nodes' = nodes /\ allNodesByUniqueId' = allNodesByUniqueId)]_vars
  /\ [](treeData.space = "view" => \A r \in ViewRefs : r.space = "view")

\* the component shows a collapsed directory and an expanded file that has
\* symbols: both come from toggles
C20_Witness ==
  /\ pc = "done"
  /\ treeData.space = "view"
  /\ \E a, b \in 1..Len(view) :
        /\ view[a].node.type = "directory" /\ view[a].hidden.def
        /\ view[b].node.type = "file" /\ Len(view[b].children.items) > 0

\* ---------------------------------------------------------------- C21
RECURSIVE VisitOrder(_, _)
\* the nodes of a statement list in the order walk.simple calls their
\* callbacks: the declarations nested in a statement, then the statement
VisitOrder(ns, k) ==
  IF k > Len(ns) THEN <<>>
  ELSE VisitOrder(ns[k].inner \o ns[k].decl, 1) \o <<ns[k]>> \o VisitOrder(ns, k + 1)

RECURSIVE PatternMatches(_, _, _, _, _)
\* the matches of the patterns of a rule set on the lines of a file, in the
\* order the loops of parseFileWithRegex take them
PatternMatches(content, config, t, p, k) ==
  IF t > Len(config.regex) THEN <<>>
  ELSE IF p > Len(config.regex[t].patterns) THEN PatternMatches(content, config, t + 1, 1, 1)
  ELSE IF k > Len(content) THEN PatternMatches(content, config, t, p + 1, 1)
  ELSE (IF content[k].head \in config.regex[t].patterns[p]
        THEN <<[tokenType |-> config.regex[t].tokenType, k |-> k]>>
        ELSE <<>>) \o PatternMatches(content, config, t, p, k + 1)

\* the rule set pass 1 uses for a path, <<>> when there is none
RuleSetOf(path) ==
  LET key == SubSeq(ExtensionOf(path), 2, Len(ExtensionOf(path)))
  IN IF IsJs(path) \/ key \notin DOMAIN languageConfigs THEN <<>>
     ELSE IF languageConfigs[key].alias # <<>> THEN languageConfigs[languageConfigs[key].alias]
     ELSE languageConfigs[key]

\* the discoveries of a file, in order: callbacks of the tree walk or matches
\* of the patterns
Discoveries(file) ==
  IF IsJs(file.path)
  THEN (IF file.content.parses THEN VisitOrder(file.content.body, 1) ELSE <<>>)
  ELSE IF RuleSetOf(file.path) = <<>> THEN <<>>
  ELSE PatternMatches(file.content.lines, RuleSetOf(file.path), 1, 1, 1)

\* the heap after one more discovery
Discovered(h, file, fileNode, d) ==
  IF IsJs(file.path)
  THEN (IF h.thrown THEN h ELSE extractVisitor(h, file, fileNode, d))
  ELSE regexMatch(h, fileNode, file.path, file.content.lines, RuleSetOf(file.path),
                  d.tokenType, d.k)

RECURSIVE DiscoveryTrace(_, _, _, _, _)
\* the heaps before the first and after each discovery of a file
DiscoveryTrace(tr, file, fileNode, ds, k) ==
  IF k > Len(ds) THEN tr
  ELSE DiscoveryTrace(Append(tr, Discovered(tr[Len(tr)], file, fileNode, ds[k])),
                      file, fileNode, ds, k + 1)

\* the trace of the j-th admitted file, from the heap the files before it left
TraceOf(j) ==
  LET file == filteredFiles[j]
      w == walkPath(discoverAll(EmptyHeap, SubSeq(filteredFiles, 1, j - 1), 1),
                    NonEmptyParts(file.path), 1, 1)
  IN DiscoveryTrace(<<[w.h EXCEPT !.nodes[w.node].imports = <<>>]>>, file, w.node,
                    Discoveries(file), 1)

IsSymbol(n) == n.type \notin {"file", "directory"}

\* heap b differs from heap a by one discovery that only inserts absent
\* identifiers and patches present ones without destroying anything
Patched(a, b, file) ==
  /\ Len(b.nodes) >= Len(a.nodes)
  /\ \A x \in 1..Len(a.nodes) :
        LET m == a.nodes[x]
            n == b.nodes[x]
        IN IF ~IsSymbol(m)
           THEN [n EXCEPT !.children = m.children, !.imports = m.imports] = m
           ELSE /\ n.type = m.type /\ n.name = m.name
                /\ n.uniqueId = m.uniqueId /\ n.path = m.path
                /\ m.isExported => n.isExported
                /\ m.loc # Undef => n.loc = m.loc
                /\ [n EXCEPT !.isExported = m.isExported, !.loc = m.loc,
                             !.cognitiveComplexity = m.cognitiveComplexity] = m
                /\ ~IsJs(file.path) => n = m
  /\ \A x \in (Len(a.nodes) + 1)..Len(b.nodes) :
        /\ ~mapHas(a.map, b.nodes[x].uniqueId)
        /\ mapGet(b.map, b.nodes[x].uniqueId) = x

\* the files pass 1 is through with
Extracted == IF pc = "discover" THEN i - 1 ELSE Len(filteredFiles)

\* C21: insert-if-absent, patch non-destructively.  Along the discoveries of
\* every extracted file (callbacks of the tree walk, matches of the patterns)
\* a node once created keeps its kind, display name, identifier and path; a
\* later discovery of its (path, name) creates no node and can only turn
\* isExported from false to true, set a location where none was recorded or
\* set the complexity; in a pattern-analysed file it changes nothing at all.
\* The nodes of the state still have the kind and name of the first discovery.
C21_PatchNonDestructive ==
  \A j \in 1..Extracted :
     LET file == filteredFiles[j]
         tr == TraceOf(j)
         last == tr[Len(tr)]
     IN /\ \A k \in 1..(Len(tr) - 1) : Patched(tr[k], tr[k + 1], file)
        /\ \A k \in 1..Len(tr) : \A x \in 1..Len(tr[k].nodes) :
              IsSymbol(tr[k].nodes[x]) =>
                /\ nodes[x].type = tr[k].nodes[x].type
                /\ nodes[x].name = tr[k].nodes[x].name
                /\ nodes[x].uniqueId = tr[k].nodes[x].uniqueId
        /\ (j = Extracted /\ (pc = "discover" \/ (pc = "link" /\ i = 1))) =>
              [k \in 1..Len(nodes) |-> nodes[k]] = last.nodes

\* symbol n of the state was discovered again, after its creation, in the
\* trace of file j
Rediscovered(j, id) ==
  LET file == filteredFiles[j]
      tr == TraceOf(j)
  IN \E k \in 2..(Len(tr) - 1) :
        /\ mapHas(tr[k].map, id)
        /\ Len(tr[k + 1].nodes) = Len(tr[k].nodes)
        /\ IF IsJs(file.path)
           THEN tr[k + 1].nodes # tr[k].nodes
           ELSE /\ Discoveries(file)[k].tokenType # "imports"
                /\ file.path \o <<":">> \o file.content.lines[Discoveries(file)[k].k].arg = id
                /\ tr[k + 1].nodes = tr[k].nodes

\* pass 1 is through: `export function f` patched the f its declaration had
\* created (exported now, kind and score kept), and the S that the class
\* pattern had matched was matched again by the struct pattern and kept its
\* kind
C21_Witness ==
  /\ pc = "link"
  /\ \E j \in 1..Len(filteredFiles) :
        /\ filteredFiles[j].content.body = JsLibrary
        /\ Rediscovered(j, filteredFiles[j].path \o <<":", "f">>)
        /\ nodes[NodeOf(filteredFiles[j].path \o <<":", "f">>)].isExported
        /\ nodes[NodeOf(filteredFiles[j].path \o <<":", "f">>)].type = "function"
  /\ \E j \in 1..Len(filteredFiles) :
        /\ ~IsJs(filteredFiles[j].path)
        /\ Rediscovered(j, filteredFiles[j].path \o <<":", "S">>)
        /\ nodes[NodeOf(filteredFiles[j].path \o <<":", "S">>)].type = "class"

\* ---------------------------------------------------------------- C22
RECURSIVE ClaimedCatchScore(_, _)
RECURSIVE ClaimedCatchScoreKids(_, _, _)
\* the score of a tree when a catch clause is scored like the other nesting
\* constructs: 1 plus the number of nesting constructs around it
ClaimedCatchScore(node, depth) ==
  (IF node.type \in ScoredTypes \cup {"CatchClause"} THEN 1 + depth ELSE 0)
  + ClaimedCatchScoreKids(node.kids, 1, IF node.type \in LeaveTypes THEN depth + 1 ELSE depth)

ClaimedCatchScoreKids(ks, k, depth) ==
  IF k > Len(ks) THEN 0
  ELSE ClaimedCatchScore(ks[k], depth) + ClaimedCatchScoreKids(ks, k + 1, depth)

\* if (x) { try {} catch (e) { ; } }   and   if (x) { ; }
IfTryCatch == Wrap("IfStatement", Wrap("CatchClause", Leaf("EmptyStatement")))

IfAlone == Wrap("IfStatement", Leaf("EmptyStatement"))

\* C22: in the exact calculation a catch clause adds 1 + the nesting depth at
\* its entry and nests its handler body: a function built from nesting
\* constructs and catch clauses scores the sum of 1 + depth over them, and a
\* try/catch placed inside one if adds 2 to the score of the if alone.
C22_CatchScoredWithNesting ==
  ccOut # Undef =>
    /\ ("CatchClause" \in TypesOf(ccIn.body)
        /\ TypesOf(ccIn.body) \cap {"CallExpression", "LogicalExpression"} = {})
         => ccOut = ClaimedCatchScore(ccIn.body, 0)
    /\ ccIn = CcInput(<<IfTryCatch>>)
         => ccOut - calculateCognitiveComplexity(CcInput(<<IfAlone>>)) = 2

\* ---------------------------------------------------------------- C23
\* the first opening brace after the signature matched on line k of a file,
\* 0 when there is none
BraceAfterSignature(lines, k) ==
  FirstOf({b \in (LineOffset(lines, k) + lines[k].end + 1)..Len(Flatten(lines, 1)) :
             Flatten(lines, 1)[b] = K("{")})

\* the opening brace at b is never balanced: every stretch of text that
\* starts with it has more opening than closing braces
Unbalanced(content, b) ==
  \A e \in b..Len(content) :
     CountTok(SubSeq(content, b, e), K("{")) > CountTok(SubSeq(content, b, e), K("}"))

\* the function matches of a file that are followed by an unmatched brace
UnmatchedFunctions(file) ==
  {k \in FunctionLines(file.content.lines) :
     /\ BraceAfterSignature(file.content.lines, k) # 0
     /\ Unbalanced(Flatten(file.content.lines, 1), BraceAfterSignature(file.content.lines, k))}

\* C23: a function of a brace-language file whose signature is followed by
\* an opening brace that is never balanced still gets its symbol node, of
\* kind function, with a complexity score of zero.
C23_UnmatchedBraceScoresZero ==
  pc # "discover" =>
    \A f \in 1..Len(filteredFiles) :
      LET file == filteredFiles[f]
      IN \A k \in UnmatchedFunctions(file) :
            LET id == file.path \o <<":">> \o file.content.lines[k].arg
            IN /\ HasNode(id)
               /\ nodes[NodeOf(id)].type = "function"
               /\ nodes[NodeOf(id)].cognitiveComplexity = 0

\* ---------------------------------------------------------------- C24
\* the first path, in input order, of the admitted files that contains s;
\* <<>> when no path does
FirstContaining(s) ==
  LET hits == {k \in 1..Len(filePaths) : Includes(filePaths[k], s)}
  IN IF hits = {} THEN <<>> ELSE filePaths[CHOOSE k \in hits : \A m \in hits : k <= m]

\* the identifiers the imports of a pattern-analysed file lead to, in order
ClaimedTargets(path, imports) ==
  LET hit == {k \in 1..Len(imports) :
                FirstContaining(imports[k]) # <<>> /\ FirstContaining(imports[k]) # path}
      kept == FilterSeq([k \in 1..Len(imports) |-> k], hit)
  IN [k \in 1..Len(kept) |-> FilePrefix \o FirstContaining(imports[kept[k]])]

PatternFiles == {f \in 1..Len(filteredFiles) : ~IsJs(filteredFiles[f].path)}

\* C24: once pass 2 is through, the dependencies of a pattern-analysed file
\* are the file identifiers of the first admitted path that contains each of
\* its raw import strings, a string whose first such path is the file itself
\* giving nothing; each is the identifier of a file node that lists the file
\* among its dependents, and none is a symbol identifier.
C24_PatternLinking ==
  Linked =>
    \A f \in PatternFiles :
       LET path == filteredFiles[f].path
           n == nodes[NodeOf(FilePrefix \o path)]
           claimed == ClaimedTargets(path, n.imports)
       IN /\ Range(n.dependencies) = Range(claimed)
          /\ pc = "cleanup" => n.dependencies = claimed
          /\ \A id \in Range(n.dependencies) :
                /\ IsFileId(id) /\ HasNode(id)
                /\ nodes[NodeOf(id)].type = "file"
                /\ (FilePrefix \o path) \in Range(nodes[NodeOf(id)].dependents)

\* a returned tree in which a pattern-analysed file has an import that led
\* to another file, one whose first containing path is the file itself
\* although a later path contains it too, and one that no path contains
C24_Witness ==
  /\ pc = "done"
  /\ \E f \in PatternFiles :
        LET path == filteredFiles[f].path
            n == nodes[NodeOf(FilePrefix \o path)]
        IN /\ n.dependencies # <<>>
           /\ \E k \in 1..Len(n.imports) :
                 /\ FirstContaining(n.imports[k]) = path
                 /\ \E p \in Range(filePaths) : p # path /\ Includes(p, n.imports[k])
           /\ \E k \in 1..Len(n.imports) : FirstContaining(n.imports[k]) = <<>>

\* ---------------------------------------------------------------- C25
\* the edge lists of the node objects, by object
EdgeLists(ns) == [k \in 1..Len(ns) |-> <<ns[k].dependencies, ns[k].dependents>>]

\* no node has been given a flag or a score of the analysis pass
NothingAnalyzed ==
  \A k \in Heap : /\ ~nodes[k].isUnused
                  /\ nodes[k].instability = <<Undef, 1>>

\* C25: the phases of a run are strictly sequential.  While files are still
\* being extracted no node has a dependency or a dependent; isUnused and
\* instability are unset until linking and the cleanup of the edge lists are
\* through, isCyclic until the cycle detection is; once linking has started
\* no node is created and no identifier registered; edge lists change only
\* in the linking pass and its cleanup.
C25_PhaseOrdering ==
  /\ [](pc = "discover" =>
          \A k \in Heap : nodes[k].dependencies = <<>> /\ nodes[k].dependents = <<>>)
  /\ [](pc \in {"discover", "link", "cleanup", "analyze"} => NothingAnalyzed)
  /\ [](pc # "done" => \A k \in Heap : ~nodes[k].isCyclic)
  /\ [][/\ pc # "discover" =>
             /\ Len(nodes') = Len(nodes)
             /\ allNodesByUniqueId' = allNodesByUniqueId
        /\ pc \notin {"link", "cleanup"} =>
             SubSeq(EdgeLists(nodes'), 1, Len(nodes)) = EdgeLists(nodes)]_vars

\* a returned tree with symbols, edges between files and to symbols, an
\* unused export, an unstable file and a cyclic file
C25_Witness ==
  /\ pc = "done"
  /\ \E k \in Heap : IsSymbol(nodes[k]) /\ nodes[k].dependents # <<>>
  /\ \E k \in Heap : nodes[k].isUnused
  /\ \E k \in FileNodeIdx : nodes[k].isCyclic
  /\ \E k \in FileNodeIdx : nodes[k].instability[1] > 0
  /\ Len(filteredFiles) >= 2

\* ---------------------------------------------------------------- C26
\* some directed cycle of file-to-file edges can be reached from file node
\* a: a lies on one, or a file it reaches does
ReachesCycle(a) == OnCycle(a) \/ \E b \in ReachableFrom(a) : OnCycle(b)

C27_NoSelfEdges ==
  /\ Linked =>
       \A k \in Heap : /\ nodes[k].uniqueId \notin Range(nodes[k].dependencies)
                       /\ nodes[k].uniqueId \notin Range(nodes[k].dependents)
  /\ (pc = "done" /\ Len(filteredFiles) = 1) => \A k \in FileNodeIdx : ~nodes[k].isCyclic

\* ---------------------------------------------------------------- C28
\* C28: edge sources are always files.  In the returned tree every symbol
\* node has an empty dependencies list and only file identifiers in its
\* dependents list, and every directory node, the root included, has both
\* lists empty.
IsFileNodeId(id) == \E k \in FileNodeIdx : nodes[k].uniqueId = id

C28_EdgeSourcesAreFiles ==
  pc = "done" =>
    \A k \in Heap :
       /\ IsSymbol(nodes[k]) =>
            /\ nodes[k].dependencies = <<>>
            /\ \A id \in Range(nodes[k].dependents) : IsFileId(id) /\ IsFileNodeId(id)
       /\ nodes[k].type = "directory" =>
            nodes[k].dependencies = <<>> /\ nodes[k].dependents = <<>>

\* a returned tree with a directory below the root, a symbol that a file of
\* another path depends on, and a file that depends on a file as well
C28_Witness ==
  /\ pc = "done"
  /\ \E k \in Heap : nodes[k].type = "directory" /\ nodes[k].uniqueId # ProjectRootId
  /\ \E k \in Heap, f \in FileNodeIdx :
        /\ IsSymbol(nodes[k]) /\ nodes[f].path # nodes[k].path
        /\ nodes[f].uniqueId \in Range(nodes[k].dependents)
        /\ nodes[k].uniqueId \in Range(nodes[f].dependencies)
        /\ \E id \in Range(nodes[f].dependencies) : IsFileId(id)

\* ---------------------------------------------------------------- C29
\* the counts of the instability computation, taken from the lists of the
\* returned nodes as the analysis pass takes them
CeOf(n) == Len(FilterSeq(nodes[n].dependencies, FileIdsIn(nodes[n].dependencies)))

CaOf(n) == Len(FilterSeq(nodes[n].dependents, FileIdsIn(nodes[n].dependents)))

SumCe == SumUpTo([k \in Heap |-> IF k \in FileNodeIdx THEN CeOf(k) ELSE 0], Len(nodes))

SumCa == SumUpTo([k \in Heap |-> IF k \in FileNodeIdx THEN CaOf(k) ELSE 0], Len(nodes))

\* C29: coupling counts balance.  After the analysis pass the efferent
\* counts of all file nodes add up to the same number as their afferent
\* counts, the instability of a file was computed from these counts, and it
\* is 1 exactly when the file has a file-level dependency and no file-level
\* dependent.
C29_CouplingBalance ==
  Analyzed =>
    /\ SumCe = SumCa
    /\ \A n \in FileNodeIdx :
          /\ CeOf(n) + CaOf(n) > 0 => nodes[n].instability = <<CeOf(n), CeOf(n) + CaOf(n)>>
          /\ (nodes[n].instability[1] = nodes[n].instability[2])
               <=> (FileIdsIn(nodes[n].dependencies) # {} /\ FileIdsIn(nodes[n].dependents) = {})

\* a returned tree with two or more file-level edges, where a file-level edge
\* was recorded more than once before the cleanup: a file of instability 1,
\* a file with dependents only and a file with both
C29_Witness ==
  /\ pc = "done"
  /\ SumCe >= 2
  /\ \E n \in FileNodeIdx : nodes[n].instability = <<1, 1>> /\ CeOf(n) >= 1 /\ CaOf(n) = 0
  /\ \E n \in FileNodeIdx : CeOf(n) = 0 /\ CaOf(n) >= 1 /\ nodes[n].instability[1] = 0
  /\ \E n \in FileNodeIdx : CeOf(n) >= 1 /\ CaOf(n) >= 1
  /\ \E n \in FileNodeIdx :
        LET before == BeforeCleanup.nodes[n].dependencies
        IN \E a, b \in 1..Len(before) : a # b /\ before[a] = before[b] /\ IsFileId(before[a])

\* ---------------------------------------------------------------- C30
\* the local names of the `export { name }` specifiers of a program
ExportedLocals(body) ==
  UNION {Range(body[b].locals) : b \in {x \in 1..Len(body) : body[x].t = "ExportNamedDeclaration"}}

\* C30: named-export specifiers are order-independent.  Once pass 1 is
\* through, every symbol of a parsed tree-based file that an export specifier
\* of the same file names as its local identifier has isExported = true,
\* wherever the export statement stands in the file.
C30_ExportSpecifierOrder ==
  pc # "discover" =>
    \A f \in 1..Len(filteredFiles) :
       LET file == filteredFiles[f]
       IN (IsJs(file.path) /\ file.content.parses
           /\ \A g \in 1..Len(filteredFiles) : filteredFiles[g].path = file.path => g = f) =>
            \A name \in ExportedLocals(file.content.body) :
               HasNode(file.path \o <<":">> \o name) =>
                 nodes[NodeOf(file.path \o <<":">> \o name)].isExported

====
